---------------------------- MODULE Spec2Model ----------------------------
(***************************************************************************)
(* A model of the memory engine of llm_memory: the SQLite record store     *)
(* (memory_system/database.py), the Chroma similarity index                *)
(* (memory_system/vector_db.py), the decision protocol consumed from the   *)
(* language model (memory_system/openai_client.py) and the coordinator     *)
(* MemorySystem (memory_system/core.py).                                   *)
(*                                                                         *)
(* Text is a sequence of one-character strings, so that containment,       *)
(* lower-casing, joining and splitting are computed, not assumed.          *)
(* Confidence, distance and similarity are counted in tenths.              *)
(* A call into a dependency that raises is a fault: every operator that    *)
(* models a try/except takes an `ok` flag and returns what the except      *)
(* branch returns when the flag is FALSE.                                  *)
(***************************************************************************)
EXTENDS Integers, Sequences, FiniteSets, Bags, TLC

VARIABLES
    db,      \* table memories: id -> row (database.py:42-54)
    log,     \* table memory_relationships, a bag of rows (database.py:70-79)
    index,   \* Chroma collection "memories": id -> entry (vector_db.py:28-31)
    clock,   \* the Memory objects that reached a store so far: the next one
             \* gets uuid4() = datetime.now() = clock + 1
    superseded, \* history: the pairs <<old id, new id>> of the UPDATEs that
                \* retired a record and stored its replacement
    calls    \* the calls in flight when callers overlap: for each caller,
             \* where its call stands and the locals it holds

vars == <<db, log, index, clock, superseded, calls>>

----------------------------------------------------------------------------
(* Bounds of the model *)

\* Memory objects that reach a store in one behaviour.
MaxMem == 2

\* Ticks of the clock per second: datetime.isoformat() leaves the fraction
\* out when it is zero.
TicksPerSecond == 2

----------------------------------------------------------------------------
(* Text *)

Users == {"u1", "u2"}
Conversations == {"conv"}
Reasons == {"user asked"}

\* str.lower() on the alphabet of the model
LowerChar(c) ==
    IF c = "A" THEN "a"
    ELSE IF c = "B" THEN "b"
    ELSE IF c = "User mentioned: " THEN "user mentioned: "
    ELSE c

lower(s) == [i \in 1..Len(s) |-> LowerChar(s[i])]

\* Python's `sub in s` for strings
Contains(sub, s) ==
    \E i \in 1..(Len(s) + 1) :
        /\ i + Len(sub) - 1 <= Len(s)
        /\ SubSeq(s, i, i + Len(sub) - 1) = sub

\* ','.join(tags)
RECURSIVE Join(_)
Join(tags) ==
    IF tags = << >> THEN << >>
    ELSE IF Len(tags) = 1 THEN tags[1]
    ELSE tags[1] \o <<",">> \o Join(Tail(tags))

\* str.split(','): always at least one piece
RECURSIVE SplitFrom(_, _)
SplitFrom(s, piece) ==
    IF s = << >> THEN <<piece>>
    ELSE IF Head(s) = "," THEN <<piece>> \o SplitFrom(Tail(s), << >>)
    ELSE SplitFrom(Tail(s), Append(piece, Head(s)))

Split(s) == SplitFrom(s, << >>)

\* datetime.isoformat() of a naive datetime: seconds, then the fraction
\* unless it is zero
isoformat(t) ==
    IF t % TicksPerSecond = 0 THEN <<t \div TicksPerSecond>>
    ELSE <<t \div TicksPerSecond, t % TicksPerSecond>>

\* datetime.fromisoformat()
fromisoformat(s) ==
    s[1] * TicksPerSecond + (IF Len(s) = 2 THEN s[2] ELSE 0)

\* Order of two isoformat texts as SQLite compares TEXT (a proper prefix is
\* smaller).
IsoLess(a, b) ==
    \/ a[1] < b[1]
    \/ a[1] = b[1] /\ Len(a) = 1 /\ Len(b) = 2
    \/ a[1] = b[1] /\ Len(a) = 2 /\ Len(b) = 2 /\ a[2] < b[2]

----------------------------------------------------------------------------
(* models.py *)

\* MemoryCategory.get_all_categories()
get_all_categories ==
    {"tools", "preferences", "personal_info", "work_info", "skills", "goals",
     "relationships", "other"}

\* Memory.to_dict(): the row written to SQLite (True is stored as 1)
to_dict(m) ==
    [id |-> m.id, user_id |-> m.user_id, content |-> m.content,
     category |-> m.category, confidence |-> m.confidence,
     timestamp |-> isoformat(m.timestamp),
     conversation_id |-> m.conversation_id,
     tags |-> Join(m.tags),
     is_active |-> IF m.is_active THEN 1 ELSE 0]

\* Memory.from_dict()
from_dict(row) ==
    [id |-> row.id, user_id |-> row.user_id, content |-> row.content,
     category |-> row.category, confidence |-> row.confidence,
     timestamp |-> fromisoformat(row.timestamp),
     conversation_id |-> row.conversation_id,
     tags |-> IF row.tags # << >> THEN Split(row.tags) ELSE << >>,
     is_active |-> row.is_active # 0]

----------------------------------------------------------------------------
(* database.py: DatabaseManager.  d is the table memories, lg the table    *)
(* memory_relationships.  Optional[Memory] is a sequence of length 0 or 1. *)

None == << >>

\* DatabaseManager.save_memory: INSERT OR REPLACE of the row, keyed by id
DatabaseManager_save_memory(d, m, ok) ==
    IF ok
    THEN [db |-> (m.id :> to_dict(m)) @@ d, ret |-> TRUE]
    ELSE [db |-> d, ret |-> FALSE]

\* A variant whose WHERE clause leaves out user_id = ?
DatabaseManager_get_memory_any_owner(d, memory_id, user_id, ok) ==
    IF /\ ok
       /\ memory_id \in DOMAIN d
       /\ d[memory_id].is_active = 1
    THEN <<from_dict(d[memory_id])>>
    ELSE << >>

\* A variant whose WHERE clause leaves out is_active = 1
DatabaseManager_get_memory_any_state(d, memory_id, user_id, ok) ==
    IF /\ ok
       /\ memory_id \in DOMAIN d
       /\ d[memory_id].user_id = user_id
    THEN <<from_dict(d[memory_id])>>
    ELSE << >>

\* DatabaseManager.get_memory: WHERE id = ? AND user_id = ? AND is_active = 1
DatabaseManager_get_memory(d, memory_id, user_id, ok) ==
    IF /\ ok
       /\ memory_id \in DOMAIN d
       /\ d[memory_id].user_id = user_id
       /\ d[memory_id].is_active = 1
    THEN <<from_dict(d[memory_id])>>
    ELSE None

\* ORDER BY timestamp DESC over a set of rows
RECURSIVE OrderByTimestampDesc(_)
OrderByTimestampDesc(rows) ==
    IF rows = {} THEN << >>
    ELSE LET newest == CHOOSE r \in rows :
                           \A o \in rows : ~IsoLess(r.timestamp, o.timestamp)
         IN  <<newest>> \o OrderByTimestampDesc(rows \ {newest})

\* Python's truth test of an Optional argument: None is false, and so is
\* the value given as zero (0 for a number, "" for a text)
Truthy(optional, zero) == optional # << >> /\ optional[1] # zero

\* LIMIT ? (added only when limit is truthy)
Limit(s, limit) ==
    IF Truthy(limit, 0) /\ Len(s) > limit[1] THEN SubSeq(s, 1, limit[1]) ELSE s

\* A variant whose WHERE clause leaves out is_active = 1
DatabaseManager_get_user_memories_any_state(d, user_id, category, limit, ok) ==
    IF ok
    THEN LET rows == {d[i] : i \in {j \in DOMAIN d :
                          /\ d[j].user_id = user_id
                          /\ (Truthy(category, "")
                                 => d[j].category = category[1])}}
             sorted == Limit(OrderByTimestampDesc(rows), limit)
         IN  [k \in 1..Len(sorted) |-> from_dict(sorted[k])]
    ELSE << >>

\* DatabaseManager.get_user_memories: category and limit are Optional
DatabaseManager_get_user_memories(d, user_id, category, limit, ok) ==
    IF ok
    THEN LET rows == {d[i] : i \in {j \in DOMAIN d :
                          /\ d[j].user_id = user_id
                          /\ d[j].is_active = 1
                          /\ (Truthy(category, "")
                                 => d[j].category = category[1])}}
             sorted == Limit(OrderByTimestampDesc(rows), limit)
         IN  [k \in 1..Len(sorted) |-> from_dict(sorted[k])]
    ELSE << >>

\* A variant whose WHERE clause is "content = (the content of the row)"
\* instead of "id = ? AND user_id = ?"
DatabaseManager_delete_memory_by_content(d, lg, memory_id, user_id, reason, ok) ==
    IF /\ ok
       /\ memory_id \in DOMAIN d
       /\ d[memory_id].user_id = user_id
    THEN [db  |-> [i \in DOMAIN d |->
                      IF d[i].content = d[memory_id].content
                      THEN [d[i] EXCEPT !.is_active = 0] ELSE d[i]],
          log |-> lg (+) SetToBag({[memory_id |-> memory_id,
                                    relationship_type |-> "deleted",
                                    reason |-> reason]}),
          ret |-> TRUE]
    ELSE [db |-> d, log |-> lg, ret |-> FALSE]

\* A variant that removes the row: DELETE FROM memories instead of UPDATE
DatabaseManager_delete_memory_hard(d, lg, memory_id, user_id, reason, ok) ==
    IF /\ ok
       /\ memory_id \in DOMAIN d
       /\ d[memory_id].user_id = user_id
    THEN [db  |-> [i \in DOMAIN d \ {memory_id} |-> d[i]],
          log |-> lg (+) SetToBag({[memory_id |-> memory_id,
                                    relationship_type |-> "deleted",
                                    reason |-> reason]}),
          ret |-> TRUE]
    ELSE [db |-> d, log |-> lg, ret |-> FALSE]

\* A variant that marks the row and writes no memory_relationships row
DatabaseManager_delete_memory_unlogged(d, lg, memory_id, user_id, reason, ok) ==
    IF /\ ok
       /\ memory_id \in DOMAIN d
       /\ d[memory_id].user_id = user_id
    THEN [db |-> [d EXCEPT ![memory_id].is_active = 0], log |-> lg, ret |-> TRUE]
    ELSE [db |-> d, log |-> lg, ret |-> FALSE]

\* DatabaseManager.delete_memory: UPDATE ... WHERE id = ? AND user_id = ?,
\* then one memory_relationships row when a row was matched
DatabaseManager_delete_memory(d, lg, memory_id, user_id, reason, ok) ==
    IF /\ ok
       /\ memory_id \in DOMAIN d
       /\ d[memory_id].user_id = user_id
    THEN [db  |-> [d EXCEPT ![memory_id].is_active = 0],
          log |-> lg (+) SetToBag({[memory_id |-> memory_id,
                                    relationship_type |-> "deleted",
                                    reason |-> reason]}),
          ret |-> TRUE]
    ELSE [db |-> d, log |-> lg, ret |-> FALSE]

\* The active rows of a user
ActiveIds(d, user_id) ==
    {i \in DOMAIN d : d[i].user_id = user_id /\ d[i].is_active = 1}

\* A variant whose queries leave out is_active = 1
DatabaseManager_get_memory_stats_all_rows(d, user_id, ok) ==
    IF ok
    THEN LET all == {i \in DOMAIN d : d[i].user_id = user_id}
             cats == {d[i].category : i \in all}
         IN  [error |-> FALSE,
              total_memories |-> Cardinality(all),
              category_counts |->
                  [c \in cats |-> Cardinality({i \in all : d[i].category = c})]]
    ELSE [error |-> TRUE, total_memories |-> 0, category_counts |-> << >>]

\* DatabaseManager.get_memory_stats: COUNT(*) and GROUP BY category over the
\* active rows of the user; {'error': ...} when the query raises
DatabaseManager_get_memory_stats(d, user_id, ok) ==
    IF ok
    THEN LET act == ActiveIds(d, user_id)
             cats == {d[i].category : i \in act}
         IN  [error |-> FALSE,
              total_memories |-> Cardinality(act),
              category_counts |->
                  [c \in cats |-> Cardinality({i \in act : d[i].category = c})]]
    ELSE [error |-> TRUE, total_memories |-> 0, category_counts |-> << >>]

----------------------------------------------------------------------------
(* vector_db.py: VectorDatabase.  ix is the Chroma collection.             *)

\* The ids the collection holds for a user: where={"user_id": user_id}
IndexIds(ix, user_id) == {i \in DOMAIN ix : ix[i].user_id = user_id}

\* VectorDatabase.add_memory: collection.add of id, document and metadata
VectorDatabase_add_memory(ix, m, ok) ==
    IF ok
    THEN [index |-> (m.id :> [id |-> m.id, user_id |-> m.user_id,
                              document |-> m.content,
                              category |-> m.category,
                              confidence |-> m.confidence,
                              timestamp |-> isoformat(m.timestamp),
                              conversation_id |-> m.conversation_id,
                              tags |-> Join(m.tags)]) @@ ix,
          ret |-> TRUE]
    ELSE [index |-> ix, ret |-> FALSE]

\* similarity = 1 - distance, in tenths
Similarity(distance) == 10 - distance

\* The distances Chroma may report for a hit, in tenths: the embeddings come
\* from the language model, so any of them can belong to any entry.
Distances == {2, 13}

\* min_similarity defaults to 0.0
MinSimilarity == 0

\* All orders of a finite set
RECURSIVE Perms(_)
Perms(S) ==
    IF S = {} THEN {<< >>}
    ELSE UNION {{<<x>> \o p : p \in Perms(S \ {x})} : x \in S}

\* What collection.query can answer for a user: the user's entries, nearest
\* first, each with its distance.
Rankings(ix, user_id) ==
    LET ids == IndexIds(ix, user_id)
        n   == Cardinality(ids)
    IN  {[k \in 1..n |-> [id |-> p[k], distance |-> ds[k]]] :
            <<p, ds>> \in {pd \in Perms(ids) \X [1..n -> Distances] :
                \A k \in 1..(n - 1) : pd[2][k] <= pd[2][k + 1]}}

\* Distances that all pass min_similarity, so that one answer can hold hits
\* of different similarity
NearDistances == {2, 5}

\* What collection.query can answer for a user when every entry is near
RankingsNear(ix, user_id) ==
    LET ids == IndexIds(ix, user_id)
        n   == Cardinality(ids)
    IN  {[k \in 1..n |-> [id |-> p[k], distance |-> ds[k]]] :
            <<p, ds>> \in {pd \in Perms(ids) \X [1..n -> NearDistances] :
                \A k \in 1..(n - 1) : pd[2][k] <= pd[2][k + 1]}}

\* No ranking is drawn when the collection is not asked (the embedding of
\* the query failed) or does not answer (the query raised)
RankingsIf(asked, ix, user_id) ==
    IF asked THEN Rankings(ix, user_id) ELSE {<< >>}

\* The rankings in which every entry is near enough to pass min_similarity.
\* The first hit that hydrates decides what delete_memory_by_content does, and
\* these rankings put every entry first: a ranking with distant entries, or
\* with a row whose read raises, leads to a state one of these leads to.
NearRankings(asked, ix, user_id) ==
    {r \in RankingsIf(asked, ix, user_id) :
        \A k \in 1..Len(r) : Similarity(r[k].distance) >= MinSimilarity}

\* Keep the elements of a sequence that satisfy a test
RECURSIVE SelectHits(_)
SelectHits(s) ==
    IF s = << >> THEN << >>
    ELSE IF Similarity(Head(s).distance) >= MinSimilarity
         THEN <<[id |-> Head(s).id,
                 similarity |-> Similarity(Head(s).distance)]>>
              \o SelectHits(Tail(s))
         ELSE SelectHits(Tail(s))

\* A variant whose query leaves out n_results = limit
VectorDatabase_search_memories_unlimited(ranking, limit, ok) ==
    IF ok THEN SelectHits(ranking) ELSE << >>

\* VectorDatabase.search_memories: n_results = limit nearest entries of the
\* user, then the min_similarity filter; [] when the query raises
VectorDatabase_search_memories(ranking, limit, ok) ==
    IF ok
    THEN SelectHits(SubSeq(ranking, 1,
                           IF Len(ranking) < limit THEN Len(ranking) ELSE limit))
    ELSE << >>

\* A variant that deletes by the where clause instead of by id
VectorDatabase_delete_memory_of_user(ix, memory_id, user_id, ok) ==
    IF /\ ok
       /\ memory_id \in DOMAIN ix
       /\ ix[memory_id].user_id = user_id
    THEN [index |-> [i \in {j \in DOMAIN ix : ix[j].user_id # user_id} |-> ix[i]],
          ret |-> TRUE]
    ELSE [index |-> ix, ret |-> FALSE]

\* A variant that finds the entry and returns True without deleting it
VectorDatabase_delete_memory_kept(ix, memory_id, user_id, ok) ==
    IF /\ ok
       /\ memory_id \in DOMAIN ix
       /\ ix[memory_id].user_id = user_id
    THEN [index |-> ix, ret |-> TRUE]
    ELSE [index |-> ix, ret |-> FALSE]

\* VectorDatabase.delete_memory: collection.get(ids, where user) then delete
VectorDatabase_delete_memory(ix, memory_id, user_id, ok) ==
    IF /\ ok
       /\ memory_id \in DOMAIN ix
       /\ ix[memory_id].user_id = user_id
    THEN [index |-> [i \in DOMAIN ix \ {memory_id} |-> ix[i]], ret |-> TRUE]
    ELSE [index |-> ix, ret |-> FALSE]

\* VectorDatabase.get_user_memory_count: 0 when the read raises
VectorDatabase_get_user_memory_count(ix, user_id, ok) ==
    IF ok THEN Cardinality(IndexIds(ix, user_id)) ELSE 0

----------------------------------------------------------------------------
(* openai_client.py: the decision protocol.  The language model is outside *)
(* the program: what it answers is an input of the call.                   *)

\* The texts a decision names as the memory to replace (upper case matters
\* to the matching of _delete_conflicting_memory)
Texts == {<<"A", "b">>, <<"b">>}

\* dict.get(key, default) on a field that may be missing (<< >>)
Get(field, default) == IF field = << >> THEN default ELSE field[1]

\* The new_memory payloads a decision may carry.  Every field is optional in
\* the JSON, so each is a sequence of length 0 or 1.
Candidates ==
    { [content |-> <<<<"a">>>>, category |-> <<"tools">>, confidence |-> <<9>>,
       tags |-> <<<< <<"x">>, <<"y">> >>>>],
      [content |-> <<<<"b">>>>, category |-> <<"hobby">>, confidence |-> <<15>>,
       tags |-> <<<< <<"x", ",", "y">> >>>>],
      [content |-> <<<< >>>>, category |-> << >>, confidence |-> << >>,
       tags |-> << >>] }

\* The decisions _decide_memory_action may return
Decisions ==
    {[action |-> "IGNORE", memory_to_replace |-> << >>, new_memory |-> c] :
        c \in Candidates}
    \cup {[action |-> "ADD", memory_to_replace |-> << >>, new_memory |-> c] :
        c \in Candidates}
    \cup {[action |-> "UPDATE", memory_to_replace |-> h, new_memory |-> c] :
        h \in Texts \cup {<< >>}, c \in Candidates}

\* A variant that forgets the action: every decision's payload is handed on
extract_memories_whatever_the_action(decision) ==
    << [new_memory |-> decision.new_memory, _action |-> "",
        _memory_to_replace |-> << >>] >>

\* OpenAIClient.extract_memories_from_text: the list handed to the
\* coordinator; UPDATE adds the keys _action and _memory_to_replace
extract_memories_from_text(decision) ==
    IF decision.action = "IGNORE" THEN << >>
    ELSE IF decision.action = "UPDATE"
    THEN << [new_memory |-> decision.new_memory, _action |-> "UPDATE",
             _memory_to_replace |-> decision.memory_to_replace] >>
    ELSE IF decision.action = "ADD"
    THEN << [new_memory |-> decision.new_memory, _action |-> "",
             _memory_to_replace |-> << >>] >>
    ELSE << >>

\* The messages of the users
Messages == {<<"b">>}

\* What the chat completion of _decide_memory_action comes to: the request
\* raises, the answer holds no JSON, or it parses to a dict -- in which any
\* key may be missing (a sequence of length 0) and the action may be unknown
Responses ==
    {[kind |-> k, decision |-> [action |-> << >>, memory_to_replace |-> << >>,
                                new_memory |-> << >>]] : k \in {"raises", "text"}}
    \cup {[kind |-> "json",
           decision |-> [action |-> <<x.action>>,
                         memory_to_replace |-> x.memory_to_replace,
                         new_memory |-> <<x.new_memory>>]] : x \in Decisions}
    \cup {[kind |-> "json",
           decision |-> [action |-> a, memory_to_replace |-> << >>,
                         new_memory |-> <<c>>]] :
            a \in {<< >>, <<"MERGE">>},
            c \in {x \in Candidates : x.content = <<<<"a">>>>}}
    \cup {[kind |-> "json",
           decision |-> [action |-> <<a>>, memory_to_replace |-> <<"b">>,
                         new_memory |-> << >>]] : a \in {"ADD", "UPDATE"}}

\* The answers the model lets each user's messages draw: every one for the
\* first user; for the second, those about the content both users share
ResponsesOf(user_id) ==
    IF user_id = "u1" THEN Responses
    ELSE {x \in Responses :
             /\ x.kind = "json"
             /\ x.decision.action \in {<<"IGNORE">>, <<"ADD">>, <<"UPDATE">>}
             /\ x.decision.new_memory # << >>
             /\ x.decision.new_memory[1].content = <<<<"a">>>>}

\* OpenAIClient._decide_memory_action: the parsed dict as it is, or the
\* fallback decision of the except branch
decide_memory_action(response, text) ==
    IF response.kind = "json"
    THEN response.decision
    ELSE [action |-> <<"ADD">>, memory_to_replace |-> << >>,
          new_memory |-> <<[content |-> <<<<"User mentioned: ">> \o text>>,
                            category |-> <<"other">>,
                            confidence |-> <<5>>,
                            tags |-> <<<< <<"fallback">> >>>>]>>]

\* OpenAIClient.extract_memories_from_text as a whole: the decision, its
\* branches, and the except branch that returns [] when a key the branch
\* reads is missing
OpenAIClient_extract_memories_from_text(response, text) ==
    LET memory_decision == decide_memory_action(response, text)
    IN  IF memory_decision.action = << >>
        THEN << >>
        ELSE IF /\ memory_decision.action[1] \in {"ADD", "UPDATE"}
                /\ memory_decision.new_memory = << >>
        THEN << >>
        ELSE extract_memories_from_text(
                 [action |-> memory_decision.action[1],
                  memory_to_replace |-> memory_decision.memory_to_replace,
                  new_memory |-> Get(memory_decision.new_memory,
                                     [content |-> << >>, category |-> << >>,
                                      confidence |-> << >>, tags |-> << >>])])

----------------------------------------------------------------------------
(* core.py: MemorySystem.  faults is the set of dependency calls that      *)
(* raise during the call.  A call that only reads (search_memories,        *)
(* get_memory_stats) changes no variable: it is an operator, and a         *)
(* statement about it is made in every reachable state, for every input.   *)

\* _get_recent_memories_for_context(user_id, limit=5) in process_message
ContextLimit == 5

\* _get_recent_memories_for_context: the records read as decision context
\* (the code hands on their contents)
get_recent_memories_for_context(d, user_id, limit, ok) ==
    DatabaseManager_get_user_memories(d, user_id, None, <<limit>>, ok)

\* get_user_memories(user_id, limit=20) in _delete_conflicting_memory
ConflictWindow == 20

\* search_memories(user_id, content_to_delete, limit=3)
DeleteSearchLimit == 3

\* confidence=memory_data.get('confidence', 0.8), in tenths
DefaultConfidence == 8

\* MemorySystem._memory_to_dict
memory_to_dict(m) ==
    [id |-> m.id, content |-> m.content, category |-> m.category,
     confidence |-> m.confidence, timestamp |-> isoformat(m.timestamp),
     conversation_id |-> m.conversation_id, tags |-> m.tags]

\* A variant that gives every Memory the same id instead of a fresh uuid4
create_memory_from_data_same_id(memory_data, user_id, conversation_id, now) ==
    IF Get(memory_data.content, << >>) = << >>
    THEN None
    ELSE << [id |-> 1, user_id |-> user_id,
             content |-> memory_data.content[1],
             category |-> Get(memory_data.category, "other"),
             confidence |-> Get(memory_data.confidence, DefaultConfidence),
             timestamp |-> now,
             conversation_id |-> conversation_id,
             tags |-> Get(memory_data.tags, << >>),
             is_active |-> TRUE] >>

\* MemorySystem._create_memory_from_data: None when content is missing or
\* empty, else a Memory with a fresh uuid4 and datetime.now()
create_memory_from_data(memory_data, user_id, conversation_id, now) ==
    IF Get(memory_data.content, << >>) = << >>
    THEN None
    ELSE << [id |-> now, user_id |-> user_id,
             content |-> memory_data.content[1],
             category |-> Get(memory_data.category, "other"),
             confidence |-> Get(memory_data.confidence, DefaultConfidence),
             timestamp |-> now,
             conversation_id |-> conversation_id,
             tags |-> Get(memory_data.tags, << >>),
             is_active |-> TRUE] >>

\* A variant that writes the record store only
save_memory_without_index(d, ix, memory, faults) ==
    IF "embed" \in faults
    THEN [db |-> d, index |-> ix, ret |-> FALSE]
    ELSE LET sql == DatabaseManager_save_memory(d, memory, "sql_save" \notin faults)
         IN  [db |-> sql.db, index |-> ix, ret |-> sql.ret]

\* A variant that writes the index first and the record store only when
\* the index write succeeded
save_memory_index_first(d, ix, memory, faults) ==
    IF "embed" \in faults
    THEN [db |-> d, index |-> ix, ret |-> FALSE]
    ELSE LET vec == VectorDatabase_add_memory(ix, memory, "vec_add" \notin faults)
             sql == IF vec.ret
                    THEN DatabaseManager_save_memory(d, memory, "sql_save" \notin faults)
                    ELSE [db |-> d, ret |-> FALSE]
         IN  [db |-> sql.db, index |-> vec.index, ret |-> sql.ret /\ vec.ret]

\* A variant that returns what the SQL write returned
save_memory_as_store_says(d, ix, memory, faults) ==
    IF "embed" \in faults
    THEN [db |-> d, index |-> ix, ret |-> FALSE]
    ELSE [db |-> DatabaseManager_save_memory(d, memory,
                                             "sql_save" \notin faults).db,
          index |-> VectorDatabase_add_memory(ix, memory,
                                              "vec_add" \notin faults).index,
          ret |-> "sql_save" \notin faults]

\* MemorySystem._save_memory: embedding, then the SQL write, then the index
\* write whatever the SQL write returned
save_memory(d, ix, memory, faults) ==
    IF "embed" \in faults
    THEN [db |-> d, index |-> ix, ret |-> FALSE]
    ELSE LET Both(sql, vec) ==
                 [db |-> sql.db, index |-> vec.index, ret |-> sql.ret /\ vec.ret]
         IN  Both(DatabaseManager_save_memory(d, memory, "sql_save" \notin faults),
                  VectorDatabase_add_memory(ix, memory, "vec_add" \notin faults))

\* A variant that takes the most recent memory, whatever its content
FirstMatch_any(user_memories, text) ==
    IF user_memories = << >> THEN None ELSE <<Head(user_memories)>>

\* A variant of the loop without its break: the last memory that matches
RECURSIVE FirstMatch_without_break(_, _)
FirstMatch_without_break(user_memories, text) ==
    IF user_memories = << >> THEN None
    ELSE LET later == FirstMatch_without_break(Tail(user_memories), text)
         IN  IF later # None THEN later
             ELSE IF \/ Contains(lower(text), lower(Head(user_memories).content))
                     \/ Contains(lower(Head(user_memories).content), lower(text))
                  THEN <<Head(user_memories)>>
                  ELSE None

\* The loop of _delete_conflicting_memory: the first memory whose content
\* contains the text or is contained in it, ignoring case
RECURSIVE FirstMatch(_, _)
FirstMatch(user_memories, text) ==
    IF user_memories = << >> THEN None
    ELSE IF \/ Contains(lower(text), lower(Head(user_memories).content))
            \/ Contains(lower(Head(user_memories).content), lower(text))
         THEN <<Head(user_memories)>>
         ELSE FirstMatch(Tail(user_memories), text)

\* MemorySystem._delete_conflicting_memory
delete_conflicting_memory(d, lg, ix, user_id, memory_content_to_replace, faults) ==
    LET Retire(memory_to_delete) ==
            IF memory_to_delete # None
            THEN LET Both(sql, vec) ==
                         [db |-> sql.db, log |-> sql.log, index |-> vec.index,
                          target |-> memory_to_delete[1].id]
                 IN  Both(DatabaseManager_delete_memory(
                              d, lg, memory_to_delete[1].id, user_id,
                              "Replaced by new information",
                              "sql_delete" \notin faults),
                          VectorDatabase_delete_memory(
                              ix, memory_to_delete[1].id, user_id,
                              "vec_delete" \notin faults))
            ELSE [db |-> d, log |-> lg, index |-> ix, target |-> 0]
    IN  Retire(FirstMatch(
                   DatabaseManager_get_user_memories(d, user_id, None, <<ConflictWindow>>,
                                                     "window" \notin faults),
                   memory_content_to_replace))

\* MemorySystem.process_message from the list that
\* extract_memories_from_text handed over
process_memory_data(d, lg, ix, user_id, memory_data_list, conversation_id, now, faults) ==
    LET Result(del, memory, saved) ==
            [db |-> saved.db, log |-> del.log, index |-> saved.index,
             success |-> TRUE,
             memories_extracted |-> IF saved.ret THEN 1 ELSE 0,
             memories |-> IF saved.ret THEN <<memory_to_dict(memory[1])>> ELSE << >>,
             created |-> memory,
             target |-> del.target]
        Save(del, memory) ==
            Result(del, memory,
                   IF memory = None
                   THEN [db |-> del.db, index |-> del.index, ret |-> FALSE]
                   ELSE save_memory(del.db, del.index, memory[1], faults))
    IN  Save(IF /\ memory_data_list # << >>
                /\ memory_data_list[1]._action = "UPDATE"
                /\ memory_data_list[1]._memory_to_replace # << >>
             THEN delete_conflicting_memory(
                      d, lg, ix, user_id,
                      memory_data_list[1]._memory_to_replace, faults)
             ELSE [db |-> d, log |-> lg, index |-> ix, target |-> 0],
             IF memory_data_list = << >> THEN None
             ELSE create_memory_from_data(memory_data_list[1].new_memory,
                                          user_id, conversation_id, now))

\* MemorySystem.process_message on a decision that has the keys it needs
process_message(d, lg, ix, user_id, decision, conversation_id, now, faults) ==
    process_memory_data(d, lg, ix, user_id,
                        extract_memories_from_text(decision),
                        conversation_id, now, faults)

\* MemorySystem.process_message on whatever the chat completion comes to
MemorySystem_process_message(d, lg, ix, user_id, response, text, conversation_id, now, faults) ==
    process_memory_data(d, lg, ix, user_id,
                        OpenAIClient_extract_memories_from_text(response, text),
                        conversation_id, now, faults)

\* A variant of the loop that reads each hit's row by id alone
RECURSIVE Hydrate_by_id(_, _, _, _)
Hydrate_by_id(d, user_id, vector_results, unhydrated) ==
    IF vector_results = << >> THEN << >>
    ELSE LET result == Head(vector_results)
             rest   == Hydrate_by_id(d, user_id, Tail(vector_results), unhydrated)
         IN  IF result.id \in DOMAIN d /\ result.id \notin unhydrated
             THEN <<[memory |-> memory_to_dict(from_dict(d[result.id])),
                     similarity |-> result.similarity]>> \o rest
             ELSE rest

\* A variant of the loop that gives every record the similarity of the
\* first hit
RECURSIVE Hydrate_top_similarity(_, _, _, _)
Hydrate_top_similarity(d, user_id, vector_results, unhydrated) ==
    LET hydrated == Hydrate_by_id(d, user_id, vector_results,
                        unhydrated \cup {i \in DOMAIN d :
                                             \/ d[i].user_id # user_id
                                             \/ d[i].is_active # 1})
    IN  [k \in 1..Len(hydrated) |->
            [hydrated[k] EXCEPT !.similarity = vector_results[1].similarity]]

\* The loop of search_memories: get_memory for each hit of the index, in the
\* index's order; a hit that does not hydrate is skipped, one that does
\* carries the hit's similarity.  unhydrated holds the ids whose read raises.
RECURSIVE Hydrate(_, _, _, _)
Hydrate(d, user_id, vector_results, unhydrated) ==
    IF vector_results = << >> THEN << >>
    ELSE LET result == Head(vector_results)
             memory == DatabaseManager_get_memory(d, result.id, user_id,
                                                  result.id \notin unhydrated)
             rest   == Hydrate(d, user_id, Tail(vector_results), unhydrated)
         IN  IF memory # None
             THEN <<[memory |-> memory_to_dict(memory[1]),
                     similarity |-> result.similarity]>> \o rest
             ELSE rest

\* ', '.join(found_memories)
RECURSIVE JoinContents(_)
JoinContents(found_memories) ==
    IF found_memories = << >> THEN << >>
    ELSE IF Len(found_memories) = 1 THEN found_memories[1]
    ELSE found_memories[1] \o <<", ">> \o JoinContents(Tail(found_memories))

\* OpenAIClient.enhance_memory_search: a fixed text when nothing was found
\* (no completion is asked for), the completion's text when it answers, and
\* the templated join of the contents when it raises
enhance_memory_search(found_memories, ok) ==
    IF found_memories = << >>
    THEN <<"I don't have any memories related to that query.">>
    ELSE IF ok THEN <<"completion">>
    ELSE <<"Based on what I remember: ">> \o JoinContents(found_memories)

\* A variant in which a search whose response synthesis raises fails
search_memories_needing_response(d, user_id, ranking, limit, faults, unhydrated) ==
    IF "embed" \in faults \/ "enhance" \in faults
    THEN [success |-> FALSE, vector_results |-> << >>, memories |-> << >>,
          enhanced_response |-> << >>, total_found |-> 0]
    ELSE LET vector_results ==
                 VectorDatabase_search_memories(ranking, limit,
                                                "vec_query" \notin faults)
             memories == Hydrate(d, user_id, vector_results, unhydrated)
         IN  [success |-> TRUE, vector_results |-> vector_results,
              memories |-> memories,
              enhanced_response |-> <<<<"completion">>>>,
              total_found |-> Len(memories)]

\* MemorySystem.search_memories.  enhanced_response is missing (<< >>) from
\* the answer of a failed search.
search_memories(d, user_id, ranking, limit, faults, unhydrated) ==
    IF "embed" \in faults
    THEN [success |-> FALSE, vector_results |-> << >>, memories |-> << >>,
          enhanced_response |-> << >>, total_found |-> 0]
    ELSE LET Answer(vector_results, memories) ==
                 [success |-> TRUE, vector_results |-> vector_results,
                  memories |-> memories,
                  enhanced_response |->
                      <<enhance_memory_search(
                            [k \in 1..Len(memories) |->
                                memories[k].memory.content],
                            "enhance" \notin faults)>>,
                  total_found |-> Len(memories)]
             Found(vector_results) ==
                 Answer(vector_results,
                        Hydrate(d, user_id, vector_results, unhydrated))
         IN  Found(VectorDatabase_search_memories(ranking, limit,
                                                  "vec_query" \notin faults))

\* A variant that deletes the index's top hit, hydrated or not
delete_top_index_hit(d, lg, ix, user_id, ranking, reason, faults, unhydrated) ==
    LET search_result == search_memories(d, user_id, ranking, DeleteSearchLimit,
                                         faults, unhydrated)
    IN  IF ~search_result.success \/ search_result.vector_results = << >>
        THEN [db |-> d, log |-> lg, index |-> ix, success |-> FALSE,
              message |-> "No matching memories found to delete",
              deleted_memory |-> << >>, target |-> 0,
              search_result |-> search_result]
        ELSE LET memory_id == search_result.vector_results[1].id
                 sql == DatabaseManager_delete_memory(
                            d, lg, memory_id, user_id, reason,
                            "sql_delete" \notin faults)
                 vec == VectorDatabase_delete_memory(
                            ix, memory_id, user_id, "vec_delete" \notin faults)
             IN  [db |-> sql.db, log |-> sql.log, index |-> vec.index,
                  success |-> sql.ret /\ vec.ret,
                  message |->
                      IF sql.ret /\ vec.ret
                      THEN "Memory deleted successfully"
                      ELSE "Failed to delete memory from one or both databases",
                  deleted_memory |-> << >>,
                  target |-> memory_id,
                  search_result |-> search_result]

\* MemorySystem.delete_memory_by_content
delete_memory_by_content(d, lg, ix, user_id, ranking, reason, faults, unhydrated) ==
    LET Both(search_result, memory_to_delete, sql, vec) ==
            [db |-> sql.db, log |-> sql.log, index |-> vec.index,
             success |-> sql.ret /\ vec.ret,
             message |->
                 IF sql.ret /\ vec.ret
                 THEN "Memory deleted successfully"
                 ELSE "Failed to delete memory from one or both databases",
             deleted_memory |-> IF sql.ret /\ vec.ret
                                THEN <<memory_to_delete.content>>
                                ELSE << >>,
             target |-> memory_to_delete.id,
             search_result |-> search_result]
        Delete(search_result, memory_to_delete) ==
            Both(search_result, memory_to_delete,
                 DatabaseManager_delete_memory(
                     d, lg, memory_to_delete.id, user_id, reason,
                     "sql_delete" \notin faults),
                 VectorDatabase_delete_memory(
                     ix, memory_to_delete.id, user_id,
                     "vec_delete" \notin faults))
        Found(search_result) ==
            IF ~search_result.success \/ search_result.memories = << >>
            THEN [db |-> d, log |-> lg, index |-> ix, success |-> FALSE,
                  message |-> "No matching memories found to delete",
                  deleted_memory |-> << >>, target |-> 0,
                  search_result |-> search_result]
            ELSE Delete(search_result, search_result.memories[1].memory)
    IN  Found(search_memories(d, user_id, ranking, DeleteSearchLimit,
                              faults, unhydrated))

\* MemorySystem.get_user_memories
get_user_memories(d, user_id, category, limit, faults) ==
    LET memories == DatabaseManager_get_user_memories(
                        d, user_id, category, limit, "sql_list" \notin faults)
    IN  [success |-> TRUE, user_id |-> user_id,
         memories |-> [k \in 1..Len(memories) |-> memory_to_dict(memories[k])],
         total_count |-> Len(memories),
         filtered_by_category |-> category]

\* MemorySystem.get_memory_stats
get_memory_stats(d, ix, user_id, faults) ==
    LET sql_stats == DatabaseManager_get_memory_stats(d, user_id,
                                                      "sql_stats" \notin faults)
        vector_count == VectorDatabase_get_user_memory_count(
                            ix, user_id, "vec_count" \notin faults)
    IN  [success |-> TRUE, sql_database |-> sql_stats,
         vector_database_count |-> vector_count,
         databases_in_sync |->
             (IF sql_stats.error THEN 0 ELSE sql_stats.total_memories)
                 = vector_count]

----------------------------------------------------------------------------
(* Exceptions.  A dependency call that fails raises inside the function    *)
(* that makes it; the exception travels up the chain of callers until a    *)
(* function whose try block encloses the call catches it and returns.      *)

\* The five operations MemorySystem offers its callers
Operations == {"MemorySystem.process_message", "MemorySystem.search_memories",
               "MemorySystem.delete_memory_by_content",
               "MemorySystem.get_user_memories", "MemorySystem.get_memory_stats"}

\* The dependency calls search_memories makes, each with the chain of
\* functions from search_memories down to the one that makes the call
SearchChains ==
    { [site |-> "embed",
       chain |-> <<"MemorySystem.search_memories",
                   "OpenAIClient.generate_embedding">>],
      [site |-> "vec_query",
       chain |-> <<"MemorySystem.search_memories",
                   "VectorDatabase.search_memories">>],
      [site |-> "sql_get",
       chain |-> <<"MemorySystem.search_memories",
                   "DatabaseManager.get_memory">>],
      [site |-> "enhance",
       chain |-> <<"MemorySystem.search_memories",
                   "OpenAIClient.enhance_memory_search">>] }

\* The dependency calls of each operation
CallChains(op) ==
    IF op = "MemorySystem.process_message"
    THEN { [site |-> "context",
            chain |-> <<op, "MemorySystem._get_recent_memories_for_context",
                        "DatabaseManager.get_user_memories">>],
           [site |-> "llm",
            chain |-> <<op, "OpenAIClient.extract_memories_from_text",
                        "OpenAIClient._decide_memory_action">>],
           [site |-> "window",
            chain |-> <<op, "MemorySystem._delete_conflicting_memory",
                        "DatabaseManager.get_user_memories">>],
           [site |-> "sql_delete",
            chain |-> <<op, "MemorySystem._delete_conflicting_memory",
                        "DatabaseManager.delete_memory">>],
           [site |-> "vec_delete",
            chain |-> <<op, "MemorySystem._delete_conflicting_memory",
                        "VectorDatabase.delete_memory">>],
           [site |-> "embed",
            chain |-> <<op, "MemorySystem._save_memory",
                        "OpenAIClient.generate_embedding">>],
           [site |-> "sql_save",
            chain |-> <<op, "MemorySystem._save_memory",
                        "DatabaseManager.save_memory">>],
           [site |-> "vec_add",
            chain |-> <<op, "MemorySystem._save_memory",
                        "VectorDatabase.add_memory">>] }
    ELSE IF op = "MemorySystem.search_memories"
    THEN SearchChains
    ELSE IF op = "MemorySystem.delete_memory_by_content"
    THEN {[site |-> c.site, chain |-> <<op>> \o c.chain] : c \in SearchChains}
         \cup
         { [site |-> "sql_delete",
            chain |-> <<op, "DatabaseManager.delete_memory">>],
           [site |-> "vec_delete",
            chain |-> <<op, "VectorDatabase.delete_memory">>] }
    ELSE IF op = "MemorySystem.get_user_memories"
    THEN { [site |-> "sql_list",
            chain |-> <<op, "DatabaseManager.get_user_memories">>] }
    ELSE { [site |-> "sql_stats",
            chain |-> <<op, "DatabaseManager.get_memory_stats">>],
           [site |-> "vec_count",
            chain |-> <<op, "VectorDatabase.get_user_memory_count">>] }

\* The dependency calls an operation can reach
SitesOf(op) == {c.site : c \in CallChains(op)}

\* A variant of the code without any try block
Catches_nothing(function) == FALSE

\* The functions whose calls all lie inside a  try: ... except Exception:
\* that returns a value (a result dict, False, None, [] or a default)
Catches(function) ==
    function \in
        { "MemorySystem.process_message", "MemorySystem.search_memories",
          "MemorySystem.delete_memory_by_content",
          "MemorySystem.get_user_memories", "MemorySystem.get_memory_stats",
          "MemorySystem._get_recent_memories_for_context",
          "MemorySystem._delete_conflicting_memory",
          "MemorySystem._save_memory",
          "OpenAIClient.extract_memories_from_text",
          "OpenAIClient._decide_memory_action",
          "OpenAIClient.generate_embedding",
          "OpenAIClient.enhance_memory_search",
          "DatabaseManager.save_memory", "DatabaseManager.get_memory",
          "DatabaseManager.get_user_memories", "DatabaseManager.delete_memory",
          "DatabaseManager.get_memory_stats",
          "VectorDatabase.add_memory", "VectorDatabase.search_memories",
          "VectorDatabase.delete_memory",
          "VectorDatabase.get_user_memory_count" }

\* An exception raised at the end of a chain reaches the caller of the
\* operation when no function of the chain catches it
Escapes(chain) == \A k \in 1..Len(chain) : ~Catches(chain[k])

----------------------------------------------------------------------------
(* The coordinator as a state machine: one action per call of MemorySystem *)
(* that writes, each running to completion.                                *)

\* The dependency calls that can raise
RetireSites == {"window", "sql_delete", "vec_delete"}
InsertSites == {"embed", "sql_save", "vec_add"}
QuerySites  == {"embed", "vec_query"}
DeleteSites == QuerySites \cup {"sql_delete", "vec_delete"}
StatsSites  == {"sql_stats", "vec_count"}
ListSites   == {"sql_list"}

\* What raises in one call: nothing, or one dependency call
FaultSets(sites) == {{}} \cup {{x} : x \in sites}

\* The same for a call that hydrates index hits: <<faults, unhydrated>>,
\* where unhydrated holds the ids whose get_memory raises
FaultChoices(sites, ids) ==
    {<<f, {}>> : f \in FaultSets(sites)} \cup {<<{}, {i}>> : i \in ids}

\* A list from which _create_memory_from_data makes a Memory object
CreatesMemory(memory_data_list) ==
    /\ memory_data_list # << >>
    /\ Get(memory_data_list[1].new_memory.content, << >>) # << >>

\* The dependency calls process_message can reach with the list that
\* extract_memories_from_text handed over
ReachedSites(memory_data_list) ==
    IF memory_data_list = << >> THEN {}
    ELSE (IF /\ memory_data_list[1]._action = "UPDATE"
             /\ memory_data_list[1]._memory_to_replace # << >>
          THEN RetireSites ELSE {})
         \cup
         (IF CreatesMemory(memory_data_list) THEN InsertSites ELSE {})

\* limit of search_memories: its default (core.py:80) and a smaller one
DefaultSearchLimit == 5
SearchLimits == {1, DefaultSearchLimit}

\* The callers that may have a call in flight at the same time
Callers == {"p1", "p2"}

\* A caller with no call in flight
Idle == [pc |-> "idle", op |-> "", user_id |-> "", conversation_id |-> "",
         memory_data_list |-> << >>, target |-> 0, reason |-> "",
         vector_success |-> TRUE]

Init ==
    /\ db = << >>
    /\ log = EmptyBag
    /\ index = << >>
    /\ clock = 0
    /\ superseded = {}
    /\ calls = [p \in Callers |-> Idle]

\* What extract_memories_from_text can hand to process_message for a user
MemoryDataLists(user_id) ==
    {OpenAIClient_extract_memories_from_text(response, text) :
        response \in ResponsesOf(user_id), text \in Messages}

\* POST /extract-memories -> MemorySystem.process_message.  A call that
\* makes a Memory object is taken while the bound allows one more.
ProcessMessage ==
    \E user_id \in Users, conversation_id \in Conversations :
    \E memory_data_list \in MemoryDataLists(user_id) :
        /\ CreatesMemory(memory_data_list) => clock < MaxMem
        /\ \E faults \in FaultSets(ReachedSites(memory_data_list)) :
           \E r \in {process_memory_data(db, log, index, user_id,
                                         memory_data_list, conversation_id,
                                         clock + 1, faults)} :
               LET now == clock + 1
                   stored == now \in DOMAIN r.db \/ now \in DOMAIN r.index
               IN  /\ db' = r.db
                   /\ log' = r.log
                   /\ index' = r.index
                   /\ clock' = IF stored THEN now ELSE clock
                   /\ superseded' =
                          IF /\ r.target \in DOMAIN r.db
                             /\ r.db[r.target].is_active = 0
                             /\ now \in DOMAIN r.db
                          THEN superseded \cup {<<r.target, now>>}
                          ELSE superseded
                   /\ UNCHANGED calls

\* DELETE /delete-memory -> MemorySystem.delete_memory_by_content
DeleteMemoryByContent ==
    \E user_id \in Users, reason \in Reasons :
    \E faults \in FaultSets(DeleteSites) :
    \E ranking \in NearRankings(faults \cap QuerySites = {}, index, user_id) :
    \E r \in {delete_memory_by_content(db, log, index, user_id, ranking,
                                      reason, faults, {})} :
            /\ db' = r.db
            /\ log' = r.log
            /\ index' = r.index
            /\ UNCHANGED <<clock, superseded, calls>>

Next ==
    \/ ProcessMessage
    \/ DeleteMemoryByContent

Spec == Init /\ [][Next]_vars

\* The same calls, as the source of the stores that one more call is made
\* against: the statements about what a single call returns and leaves
\* behind (C28, C31 and later) are made of these behaviours.
SpecStores == Init /\ [][Next]_vars

\* The same calls again, as the source of the stores on which one write is
\* followed through its failures: what an UPDATE and a delete leave behind
\* when a store call fails and when none does (C3, C18, C22, C26).
SpecWrites == Init /\ [][Next]_vars

----------------------------------------------------------------------------
(* Calls without failure.  The same two operations, one call at a time, in *)
(* the executions where no store call, no embedding and no chat completion *)
(* raises.                                                                 *)

\* What extract_memories_from_text hands over when the completion answers
AnsweredLists(user_id) ==
    {OpenAIClient_extract_memories_from_text(response, text) :
        response \in {x \in ResponsesOf(user_id) : x.kind # "raises"},
        text \in Messages}

\* process_message, every dependency call succeeding
ProcessMessageNoFailure ==
    \E user_id \in Users, conversation_id \in Conversations :
    \E memory_data_list \in AnsweredLists(user_id) :
        /\ CreatesMemory(memory_data_list) => clock < MaxMem
        /\ \E r \in {process_memory_data(db, log, index, user_id,
                                         memory_data_list, conversation_id,
                                         clock + 1, {})} :
               LET now == clock + 1
                   stored == now \in DOMAIN r.db \/ now \in DOMAIN r.index
               IN  /\ db' = r.db
                   /\ log' = r.log
                   /\ index' = r.index
                   /\ clock' = IF stored THEN now ELSE clock
                   /\ superseded' =
                          IF /\ r.target \in DOMAIN r.db
                             /\ r.db[r.target].is_active = 0
                             /\ now \in DOMAIN r.db
                          THEN superseded \cup {<<r.target, now>>}
                          ELSE superseded
                   /\ UNCHANGED calls

\* delete_memory_by_content, every dependency call succeeding; the index
\* answers with any ranking of the owner's entries
DeleteMemoryByContentNoFailure ==
    \E user_id \in Users, reason \in Reasons :
    \E ranking \in Rankings(index, user_id) :
    \E r \in {delete_memory_by_content(db, log, index, user_id, ranking,
                                      reason, {}, {})} :
            /\ db' = r.db
            /\ log' = r.log
            /\ index' = r.index
            /\ UNCHANGED <<clock, superseded, calls>>

NextNoFailure ==
    \/ ProcessMessageNoFailure
    \/ DeleteMemoryByContentNoFailure

SpecNoFailure == Init /\ [][NextNoFailure]_vars

----------------------------------------------------------------------------
(* Overlapping calls.  MemorySystem holds no lock, and each store call     *)
(* opens its own connection and commits on its own: when two callers are   *)
(* served at the same time (two workers over the same database file and    *)
(* collection), the store calls of their requests interleave.  One action  *)
(* per store call of process_message and of delete_memory_by_content; here *)
(* every dependency call succeeds but the removal from the index, which    *)
(* may fail.                                                               *)

\* What extract_memories_from_text hands to the overlapping calls: the lists
\* about the content both users share
OverlappingLists == MemoryDataLists("u2") \ {<< >>}

\* The calls of process_message in flight
InFlight == {p \in Callers : calls[p].op = "process_message"}

\* process_message up to the loop over memory_data_list: the decision is
\* taken and the call is about to retire (UPDATE naming a memory to replace)
\* or to save.  A call begins while fewer than MaxMem records are stored, so
\* that calls that overlap may store one record more.
BeginProcessMessage(p) ==
    /\ calls[p].pc = "idle"
    /\ clock < MaxMem
    /\ \E user_id \in Users, conversation_id \in Conversations,
          memory_data_list \in OverlappingLists :
          calls' = [calls EXCEPT ![p] =
              [pc |-> IF /\ memory_data_list[1]._action = "UPDATE"
                         /\ memory_data_list[1]._memory_to_replace # << >>
                      THEN "get_user_memories" ELSE "save_memory",
               op |-> "process_message", user_id |-> user_id,
               conversation_id |-> conversation_id,
               memory_data_list |-> memory_data_list, target |-> 0,
               reason |-> "Replaced by new information",
               vector_success |-> TRUE]]
    /\ UNCHANGED <<db, log, index, clock, superseded>>

\* A variant that skips a record which another call in flight has already
\* picked as its memory_to_delete
FindConflictingMemory_claiming(p) ==
    /\ calls[p].pc = "get_user_memories"
    /\ \E memory_to_delete \in
           {FirstMatch(DatabaseManager_get_user_memories(
                           db, calls[p].user_id, None, <<ConflictWindow>>, TRUE),
                       calls[p].memory_data_list[1]._memory_to_replace)} :
          calls' = [calls EXCEPT ![p] =
              IF /\ memory_to_delete # None
                 /\ \A q \in Callers : calls[q].target # memory_to_delete[1].id
              THEN [@ EXCEPT !.pc = "db_delete_memory",
                             !.target = memory_to_delete[1].id]
              ELSE [@ EXCEPT !.pc = "save_memory"]]
    /\ UNCHANGED <<db, log, index, clock, superseded>>

\* _delete_conflicting_memory: get_user_memories and the loop that picks
\* memory_to_delete
FindConflictingMemory(p) ==
    /\ calls[p].pc = "get_user_memories"
    /\ \E memory_to_delete \in
           {FirstMatch(DatabaseManager_get_user_memories(
                           db, calls[p].user_id, None, <<ConflictWindow>>, TRUE),
                       calls[p].memory_data_list[1]._memory_to_replace)} :
          calls' = [calls EXCEPT ![p] =
              IF memory_to_delete # None
              THEN [@ EXCEPT !.pc = "db_delete_memory",
                             !.target = memory_to_delete[1].id]
              ELSE [@ EXCEPT !.pc = "save_memory"]]
    /\ UNCHANGED <<db, log, index, clock, superseded>>

\* delete_memory_by_content up to its two delete calls: search_memories has
\* answered and memory_id is that of its first memory.  A call that finds
\* nothing returns at once and leaves no trace.
BeginDeleteMemoryByContent(p) ==
    /\ calls[p].pc = "idle"
    /\ \E user_id \in Users, reason \in Reasons :
       \E ranking \in NearRankings(TRUE, index, user_id) :
       \E search_result \in {search_memories(db, user_id, ranking,
                                             DeleteSearchLimit, {}, {})} :
          /\ search_result.memories # << >>
          /\ calls' = [calls EXCEPT ![p] =
                 [pc |-> "db_delete_memory", op |-> "delete_memory_by_content",
                  user_id |-> user_id, conversation_id |-> "",
                  memory_data_list |-> << >>,
                  target |-> search_result.memories[1].memory.id,
                  reason |-> reason, vector_success |-> TRUE]]
    /\ UNCHANGED <<db, log, index, clock, superseded>>

\* db_manager.delete_memory(memory_id, user_id, reason), of either operation
DbDeleteMemory(p) ==
    /\ calls[p].pc = "db_delete_memory"
    /\ \E sql \in {DatabaseManager_delete_memory(
                        db, log, calls[p].target, calls[p].user_id,
                        calls[p].reason, TRUE)} :
          /\ db' = sql.db
          /\ log' = sql.log
    /\ calls' = [calls EXCEPT ![p].pc = "vector_delete_memory"]
    /\ UNCHANGED <<index, clock, superseded>>

\* A variant in which process_message gives up when the index removal fails
VectorDeleteMemory_or_give_up(p) ==
    /\ calls[p].pc = "vector_delete_memory"
    /\ \E ok \in BOOLEAN :
       \E vec \in {VectorDatabase_delete_memory(index, calls[p].target,
                                               calls[p].user_id, ok)} :
          /\ index' = vec.index
          /\ calls' = [calls EXCEPT ![p] =
                 IF calls[p].op = "process_message" /\ vec.ret
                 THEN [@ EXCEPT !.pc = "save_memory",
                                !.vector_success = vec.ret]
                 ELSE Idle]
    /\ UNCHANGED <<db, log, clock, superseded>>

\* vector_db.delete_memory(memory_id, user_id), of either operation, which
\* may fail; delete_memory_by_content returns after it, process_message
\* goes on to the new memory whatever vector_success is
VectorDeleteMemory(p) ==
    /\ calls[p].pc = "vector_delete_memory"
    /\ \E ok \in BOOLEAN :
       \E vec \in {VectorDatabase_delete_memory(index, calls[p].target,
                                               calls[p].user_id, ok)} :
          /\ index' = vec.index
          /\ calls' = [calls EXCEPT ![p] =
                 IF calls[p].op = "process_message"
                 THEN [@ EXCEPT !.pc = "save_memory",
                                !.vector_success = vec.ret]
                 ELSE Idle]
    /\ UNCHANGED <<db, log, clock, superseded>>

\* _create_memory_from_data and _save_memory; process_message returns
SaveMemory(p) ==
    /\ calls[p].pc = "save_memory"
    /\ \E memory \in {create_memory_from_data(
                           calls[p].memory_data_list[1].new_memory,
                           calls[p].user_id, calls[p].conversation_id,
                           clock + 1)} :
          IF memory = None
          THEN UNCHANGED <<db, index, clock, superseded>>
          ELSE \E saved \in {save_memory(db, index, memory[1], {})} :
                  /\ db' = saved.db
                  /\ index' = saved.index
                  /\ clock' = clock + 1
                  /\ superseded' =
                         IF /\ calls[p].target # 0
                            /\ db[calls[p].target].is_active = 0
                         THEN superseded \cup {<<calls[p].target, clock + 1>>}
                         ELSE superseded
    /\ calls' = [calls EXCEPT ![p] = Idle]
    /\ UNCHANGED log

NextOverlapping ==
    \E p \in Callers :
        \/ BeginProcessMessage(p)
        \/ FindConflictingMemory(p)
        \/ BeginDeleteMemoryByContent(p)
        \/ DbDeleteMemory(p)
        \/ VectorDeleteMemory(p)
        \/ SaveMemory(p)

SpecOverlapping == Init /\ [][NextOverlapping]_vars

----------------------------------------------------------------------------
(* Properties.  A statement about one call is made in every reachable      *)
(* state, for every input of the call: the call's operator is applied to   *)
(* the stores of the state and its result is compared with them.           *)

\* A candidate that passes the validation the specification asks for:
\* content not empty, a category of the enumeration, confidence in 0..1
ValidCandidate(c) ==
    /\ Get(c.content, << >>) # << >>
    /\ Get(c.category, "other") \in get_all_categories
    /\ Get(c.confidence, DefaultConfidence) \in 0..10

\* The rows of the log that name a memory, counted with their copies
LogRowsOf(lg, memory_id) ==
    LET rows == {x \in BagToSet(lg) : x.memory_id = memory_id}
        RECURSIVE Sum(_)
        Sum(S) == IF S = {} THEN 0
                  ELSE LET x == CHOOSE y \in S : TRUE
                       IN  CopiesIn(x, lg) + Sum(S \ {x})
    IN  Sum(rows)

\* C1: a process_message call whose decision is ADD with a valid candidate,
\* no dependency call failing, creates exactly one record: it is new, active,
\* owned by the caller, and present in the record store and in the index
\* with the same content, category and confidence (within 0..1); no other
\* row, index entry or log row is created or changed.
C1_AddCreatesOneRecordInBothStores ==
    \A user_id \in Users, conversation_id \in Conversations :
    \A decision \in {x \in Decisions :
                        x.action = "ADD" /\ ValidCandidate(x.new_memory)} :
    \A r \in {process_message(db, log, index, user_id, decision,
                             conversation_id, clock + 1, {})} :
        LET now == clock + 1
            c   == decision.new_memory
        IN  /\ now \notin DOMAIN db
            /\ now \notin DOMAIN index
            /\ DOMAIN r.db = DOMAIN db \cup {now}
            /\ DOMAIN r.index = DOMAIN index \cup {now}
            /\ \A i \in DOMAIN db : r.db[i] = db[i]
            /\ \A i \in DOMAIN index : r.index[i] = index[i]
            /\ r.log = log
            /\ r.memories_extracted = 1
            /\ r.db[now].is_active = 1
            /\ r.db[now].user_id = user_id
            /\ r.index[now].user_id = user_id
            /\ r.db[now].content = c.content[1]
            /\ r.index[now].document = c.content[1]
            /\ r.db[now].category = Get(c.category, "other")
            /\ r.index[now].category = r.db[now].category
            /\ r.db[now].confidence = Get(c.confidence, DefaultConfidence)
            /\ r.index[now].confidence = r.db[now].confidence
            /\ r.db[now].confidence \in 0..10

\* C1's case: a second ADD has stored a record in both stores, next to the
\* first record, and no record was ever retired
C1_Witness ==
    /\ clock = 2
    /\ DOMAIN db = {1, 2}
    /\ DOMAIN index = {1, 2}
    /\ log = EmptyBag
    /\ \A i \in {1, 2} :
          /\ db[i].is_active = 1
          /\ index[i].document = db[i].content
          /\ index[i].category = db[i].category
          /\ index[i].confidence = db[i].confidence
          /\ db[i].confidence \in 0..10
          /\ db[i].category \in get_all_categories

\* C2: a process_message call whose decision is IGNORE writes nothing, to
\* the record store, the log or the index, and reports zero extracted
\* memories, whatever payload the decision carries.
C2_IgnoreWritesNothing ==
    \A user_id \in Users, conversation_id \in Conversations :
    \A decision \in {x \in Decisions : x.action = "IGNORE"} :
    \A faults \in FaultSets(RetireSites \cup InsertSites) :
    \A r \in {process_message(db, log, index, user_id, decision,
                             conversation_id, clock + 1, faults)} :
        /\ r.db = db
        /\ r.log = log
        /\ r.index = index
        /\ r.memories_extracted = 0
        /\ r.memories = << >>

\* C2's case: the stores hold an active record, a retired one and a log row,
\* and an IGNORE decision that carries a valid payload leaves them as they
\* are
C2_Witness ==
    /\ \E i \in DOMAIN db : db[i].is_active = 1 /\ i \in DOMAIN index
    /\ \E i \in DOMAIN db : db[i].is_active = 0
    /\ log # EmptyBag
    /\ \E decision \in Decisions :
          /\ decision.action = "IGNORE"
          /\ ValidCandidate(decision.new_memory)
          /\ process_message(db, log, index, "u1", decision, "conv",
                             clock + 1, {}).memories_extracted = 0

\* The active records of an owner that a hint resolves to: the content
\* contains the hint or is contained in it, ignoring case
ResolvedBy(user_id, hint) ==
    {i \in ActiveIds(db, user_id) :
        \/ Contains(lower(hint), lower(db[i].content))
        \/ Contains(lower(db[i].content), lower(hint))}

\* The result of an UPDATE that replaced a record: one of the records the
\* hint resolved to is inactive, the only new active record of the owner is
\* the candidate's, and exactly one log row names the old record
Replaced(r, user_id, decision, now) ==
    /\ \E old \in ResolvedBy(user_id, decision.memory_to_replace) :
          /\ r.db[old].is_active = 0
          /\ LogRowsOf(r.log, old) = 1
    /\ ActiveIds(r.db, user_id) \ ActiveIds(db, user_id) = {now}
    /\ r.db[now].content = Get(decision.new_memory.content, << >>)

\* The UPDATE decisions whose hint resolves to an active record of the owner
ResolvingUpdates(user_id) ==
    {x \in Decisions :
        /\ x.action = "UPDATE"
        /\ x.memory_to_replace # << >>
        /\ ResolvedBy(user_id, x.memory_to_replace) # {}}

HitIds(hits) == {hits[k].id : k \in 1..Len(hits)}

\* The ids a list of hydrated results names
ResultIds(memories) == {memories[k].memory.id : k \in 1..Len(memories)}

\* C4 as stated: once an UPDATE has superseded X by Y, every later search of
\* the owner omits X, also when X is still in the index, and returns Y
\* whenever Y is among the hits the index answers with.
C4_SearchReturnsReplacementWheneverIndexed ==
    \A xy \in superseded :
    \A limit \in SearchLimits :
    \A fu \in FaultChoices(QuerySites, IndexIds(index, db[xy[1]].user_id)) :
    \A ranking \in RankingsIf(fu[1] = {}, index, db[xy[1]].user_id) :
    \A r \in {search_memories(db, db[xy[1]].user_id, ranking, limit,
                             fu[1], fu[2])} :
        /\ xy[1] \notin ResultIds(r.memories)
        /\ xy[2] \in HitIds(r.vector_results) => xy[2] \in ResultIds(r.memories)

\* C4: once an UPDATE has superseded X by Y, every later search of the owner
\* omits X, also when X is still in the index, and returns Y whenever Y is
\* among the hits the index answers with, Y is still active and the read of
\* Y from the record store succeeds.
C4_SearchOmitsSupersededReturnsActiveReplacement ==
    \A xy \in superseded :
    \A limit \in SearchLimits :
    \A fu \in FaultChoices(QuerySites, IndexIds(index, db[xy[1]].user_id)) :
    \A ranking \in RankingsIf(fu[1] = {}, index, db[xy[1]].user_id) :
    \A r \in {search_memories(db, db[xy[1]].user_id, ranking, limit,
                             fu[1], fu[2])} :
        /\ xy[1] \notin ResultIds(r.memories)
        /\ (/\ xy[2] \in HitIds(r.vector_results)
            /\ db[xy[2]].is_active = 1
            /\ xy[2] \notin fu[2])
           => xy[2] \in ResultIds(r.memories)

\* C4's case: X was superseded by Y, the index removal of X failed so that
\* the index still holds X next to Y, and Y is active
C4_Witness ==
    \E xy \in superseded :
        /\ xy[1] \in DOMAIN index
        /\ xy[2] \in DOMAIN index
        /\ db[xy[1]].is_active = 0
        /\ db[xy[2]].is_active = 1

\* C5: in every reachable state, drifted ones included, every record that
\* search_memories returns is owned by the caller and is active in the
\* record store at the time its row is read.
C5_SearchResultsAreOwnedAndActive ==
    \A user_id \in Users :
    \A limit \in SearchLimits :
    \A fu \in FaultChoices(QuerySites, IndexIds(index, user_id)) :
    \A ranking \in RankingsIf(fu[1] = {}, index, user_id) :
    \A r \in {search_memories(db, user_id, ranking, limit, fu[1], fu[2])} :
    \A k \in 1..Len(r.memories) :
        LET id == r.memories[k].memory.id
        IN  /\ id \in DOMAIN db
            /\ db[id].user_id = user_id
            /\ db[id].is_active = 1

\* C5's case: the stores have drifted -- the index holds an entry of a
\* retired record next to one of an active record of the same owner -- and a
\* search of the owner returns a record
C5_Witness ==
    \E user_id \in Users :
        /\ \E i \in IndexIds(index, user_id) \cap DOMAIN db : db[i].is_active = 0
        /\ \E ranking \in Rankings(index, user_id) :
              search_memories(db, user_id, ranking, DefaultSearchLimit,
                              {}, {}).total_found = 1

\* C6: delete_memory_by_content for an owner who has no record, or whose
\* search yields no hit, returns the not-found failure and changes nothing
\* in the record store, the log or the index.
C6_DeleteWithoutHitChangesNothing ==
    \A user_id \in Users, reason \in Reasons :
    \A fu \in FaultChoices(DeleteSites, IndexIds(index, user_id)) :
    \A ranking \in RankingsIf(fu[1] \cap QuerySites = {}, index, user_id) :
        LET hits == HitIds(VectorDatabase_search_memories(
                               ranking, DeleteSearchLimit, TRUE))
            found == hits \cap (ActiveIds(db, user_id) \ fu[2])
        IN  found = {} =>
            \A r \in {delete_memory_by_content(db, log, index, user_id, ranking,
                                              reason, fu[1], fu[2])} :
                /\ ~r.success
                /\ r.message = "No matching memories found to delete"
                /\ r.db = db
                /\ r.log = log
                /\ r.index = index

\* C6's case: one owner has records, the other has none at all; and the
\* index holds only a retired record of the first owner, so that the search
\* of either yields no hit
C6_Witness ==
    /\ DOMAIN db # {}
    /\ \E user_id \in Users :
          /\ {i \in DOMAIN db : db[i].user_id = user_id} = {}
          /\ IndexIds(index, user_id) = {}
    /\ \E user_id \in Users :
          /\ IndexIds(index, user_id) # {}
          /\ IndexIds(index, user_id) \subseteq DOMAIN db
          /\ \A i \in IndexIds(index, user_id) : db[i].is_active = 0
          /\ \A ranking \in Rankings(index, user_id) :
                ~delete_memory_by_content(db, log, index, user_id, ranking,
                                          "user asked", {}, {}).success

\* Lists of tags a Memory may carry: none, one, two, one with a comma in
\* it, one that is the empty string
TagLists ==
    {<< >>, << <<"x">> >>, << <<"x">>, <<"y">> >>, << <<"x", ",", "y">> >>,
     << << >> >>}

\* Valid Memory objects: a new id or the id of a stored row, any owner
SomeMemories ==
    [id : 1..(clock + 1), user_id : Users, content : {<<"a">>, <<"A", "b">>},
     category : {"tools", "other"}, confidence : {0, 9},
     timestamp : {clock, clock + 1}, conversation_id : Conversations,
     tags : TagLists, is_active : {TRUE}]

\* C7: for every valid record m, save_memory(m) followed by
\* get_memory(m.id, m.user_id) returns a record equal to m field for field,
\* tags included.
C7_SaveThenGetReturnsTheRecord ==
    \A m \in SomeMemories :
        LET saved == DatabaseManager_save_memory(db, m, TRUE)
        IN  /\ saved.ret
            /\ DatabaseManager_get_memory(saved.db, m.id, m.user_id, TRUE) = <<m>>

\* C8: delete_memory on an id that is absent or already inactive returns
\* not-found and changes neither the row nor the log; deleting the same
\* active id twice leaves exactly one log row for it.
C8_DeleteOfInactiveOrAbsentIsNotFound ==
    \A memory_id \in 1..(clock + 1), user_id \in Users, reason \in Reasons :
    \A r \in {DatabaseManager_delete_memory(db, log, memory_id, user_id,
                                           reason, TRUE)} :
        /\ (memory_id \notin DOMAIN db \/ db[memory_id].is_active = 0)
           => /\ ~r.ret
              /\ r.db = db
              /\ r.log = log
        /\ memory_id \in ActiveIds(db, user_id)
           => LogRowsOf(DatabaseManager_delete_memory(
                            r.db, r.log, memory_id, user_id, reason, TRUE).log,
                        memory_id) = 1

\* The rows of an owner, active or not, and those a log row names
RowsOf(user_id) == {i \in DOMAIN db : db[i].user_id = user_id}
RetiredOf(user_id) == {i \in RowsOf(user_id) : LogRowsOf(log, i) > 0}

\* C9: after any sequence of ADDs and retirements, get_memory_stats, when
\* its two reads succeed, reports a count equal to the number of the owner's
\* active records (the records stored less the records retired), category
\* counts over the active rows only, and databases_in_sync true exactly when
\* the index's count for the owner equals that count.
C9_StatsCountActiveRecords ==
    \A user_id \in Users :
    \A r \in {get_memory_stats(db, index, user_id, {})} :
        LET stats == r.sql_database
            count(c) == IF c \in DOMAIN stats.category_counts
                        THEN stats.category_counts[c] ELSE 0
        IN  /\ r.success
            /\ ~stats.error
            /\ stats.total_memories = Cardinality(ActiveIds(db, user_id))
            /\ stats.total_memories =
                   Cardinality(RowsOf(user_id)) - Cardinality(RetiredOf(user_id))
            /\ \A c \in get_all_categories \cup DOMAIN stats.category_counts :
                   count(c) = Cardinality({i \in ActiveIds(db, user_id) :
                                              db[i].category = c})
            /\ \A c \in DOMAIN stats.category_counts : count(c) > 0
            /\ r.databases_in_sync
                   <=> (Cardinality(IndexIds(index, user_id)) = stats.total_memories)

\* C9's case: an owner stored two records and one was retired, the index
\* still holding both
C9_Witness ==
    \E user_id \in Users :
        /\ Cardinality(RowsOf(user_id)) = 2
        /\ Cardinality(RetiredOf(user_id)) = 1
        /\ Cardinality(IndexIds(index, user_id)) = 2
        /\ get_memory_stats(db, index, user_id, {}).sql_database.total_memories = 1
        /\ ~get_memory_stats(db, index, user_id, {}).databases_in_sync

\* C10: when the embedding call fails, process_message has no side effect,
\* for an ADD and for an UPDATE alike: no record is created, no record is
\* retired, no log row is written, the index is not touched.
C10_EmbeddingFailureHasNoSideEffect ==
    \A user_id \in Users, conversation_id \in Conversations :
    \A decision \in {x \in Decisions : x.action \in {"ADD", "UPDATE"}} :
    \A r \in {process_message(db, log, index, user_id, decision,
                             conversation_id, clock + 1, {"embed"})} :
        /\ r.db = db
        /\ r.log = log
        /\ r.index = index
        /\ r.memories_extracted = 0

\* C11: when the candidate of an ADD or UPDATE decision has empty content,
\* process_message writes nothing: no record is inserted, no record is
\* retired, no log row is appended, the index is unchanged.
C11_EmptyContentWritesNothing ==
    \A user_id \in Users, conversation_id \in Conversations :
    \A decision \in {x \in Decisions :
                        /\ x.action \in {"ADD", "UPDATE"}
                        /\ Get(x.new_memory.content, << >>) = << >>} :
    \A r \in {process_message(db, log, index, user_id, decision,
                             conversation_id, clock + 1, {})} :
        /\ r.db = db
        /\ r.log = log
        /\ r.index = index
        /\ r.memories_extracted = 0

\* C12: every record that process_message persisted, in the record store or
\* in the index, has a confidence within 0..1, whatever the decision
\* supplied.
C12_StoredConfidenceIsInRange ==
    /\ \A i \in DOMAIN db : db[i].confidence \in 0..10
    /\ \A i \in DOMAIN index : index[i].confidence \in 0..10

\* C13: every record that process_message persisted has a category of the
\* enumeration; a category outside it is stored as "other".
C13_StoredCategoryIsOfTheEnumeration ==
    /\ \A i \in DOMAIN db : db[i].category \in get_all_categories
    /\ \A i \in DOMAIN index : index[i].category \in get_all_categories

\* C14: when process_message inserts a record and the write to the record
\* store fails, the index is not written for that record.
C14_IndexWrittenOnlyAfterStoreWrite ==
    \A user_id \in Users, conversation_id \in Conversations :
    \A decision \in {x \in Decisions :
                        /\ x.action \in {"ADD", "UPDATE"}
                        /\ Get(x.new_memory.content, << >>) # << >>} :
    \A r \in {process_message(db, log, index, user_id, decision,
                             conversation_id, clock + 1, {"sql_save"})} :
        /\ (clock + 1) \notin DOMAIN r.db
        /\ (clock + 1) \notin DOMAIN r.index

\* The answers that give _decide_memory_action no usable decision: the
\* request raised, the answer holds no JSON, or the JSON lacks a known
\* action or the new_memory its action needs
Unusable(response) ==
    \/ response.kind # "json"
    \/ response.decision.action = << >>
    \/ response.decision.action[1] \notin {"IGNORE", "ADD", "UPDATE"}
    \/ /\ response.decision.action[1] \in {"ADD", "UPDATE"}
       /\ response.decision.new_memory = << >>

\* C15: whenever the language model is unavailable or its answer is not
\* JSON or is JSON without a usable action or new_memory, process_message
\* (no store failing) stores exactly one record: active, owned by the
\* caller, confidence 0.5, tagged "fallback", its content built from the
\* raw text of the message, in the record store and in the index.
C15_UnusableDecisionStoresFallbackRecord ==
    \A user_id \in Users, conversation_id \in Conversations, text \in Messages :
    \A response \in {x \in Responses : Unusable(x)} :
    \A r \in {MemorySystem_process_message(db, log, index, user_id, response,
                                          text, conversation_id, clock + 1, {})} :
        LET now == clock + 1
        IN  /\ r.memories_extracted = 1
            /\ DOMAIN r.db = DOMAIN db \cup {now}
            /\ DOMAIN r.index = DOMAIN index \cup {now}
            /\ r.db[now].is_active = 1
            /\ r.db[now].user_id = user_id
            /\ r.db[now].content = <<"User mentioned: ">> \o text
            /\ r.db[now].confidence = 5
            /\ r.db[now].tags = Join(<< <<"fallback">> >>)
            /\ r.index[now].document = r.db[now].content

\* C16: get_memory(id, owner) returns the record only if a row with that id
\* exists, belongs to the owner and is active; for an absent id, another
\* owner's id and a retired id alike it returns the one not-found result.
C16_GetMemoryIsolatesOwners ==
    \A memory_id \in 1..(clock + 1), user_id \in Users, ok \in BOOLEAN :
    \A g \in {DatabaseManager_get_memory(db, memory_id, user_id, ok)} :
        LET present == /\ memory_id \in DOMAIN db
                       /\ db[memory_id].user_id = user_id
                       /\ db[memory_id].is_active = 1
        IN  /\ g # None => /\ present
                           /\ Len(g) = 1
                           /\ g[1].id = memory_id
                           /\ g[1].user_id = user_id
                           /\ g[1].content = db[memory_id].content
                           /\ g[1].is_active
            /\ ~present => g = None
            /\ present /\ ok => g # None

\* C16's case: the store holds a retired record of one owner and an active
\* record of another owner, whose id the first owner asks for
C16_Witness ==
    \E i \in DOMAIN db, j \in DOMAIN db :
        /\ db[i].is_active = 0
        /\ db[j].is_active = 1
        /\ db[j].user_id # db[i].user_id
        /\ DatabaseManager_get_memory(db, j, db[i].user_id, TRUE) = None
        /\ DatabaseManager_get_memory(db, i, db[i].user_id, TRUE) = None
        /\ DatabaseManager_get_memory(db, j, db[j].user_id, TRUE) # None

\* The Optional arguments given to get_user_memories
CategoriesAsked == {None, <<"">>, <<"tools">>, <<"hobby">>, <<"goals">>}
LimitsAsked == {None} \cup {<<n>> : n \in 0..MaxMem}

\* C17: get_user_memories(owner, category?, limit?) returns only active
\* records of the owner, of the category when one is given, newest first by
\* timestamp, and at most `limit` of them whenever a limit is given.
C17_ListIsActiveNewestFirstAndLimited ==
    \A user_id \in Users, category \in CategoriesAsked, limit \in LimitsAsked :
    \A r \in {get_user_memories(db, user_id, category, limit, {})} :
        /\ r.success
        /\ \A k \in 1..Len(r.memories) :
              /\ r.memories[k].id \in ActiveIds(db, user_id)
              /\ category # None => r.memories[k].category = category[1]
        /\ \A k \in 1..Len(r.memories), l \in 1..Len(r.memories) :
              k < l => fromisoformat(r.memories[k].timestamp)
                           > fromisoformat(r.memories[l].timestamp)
        /\ limit # None => Len(r.memories) <= limit[1]

\* The hits of a search that hydrate: the ids the index answers with, in
\* its order, that are active records of the owner and whose read succeeds
RECURSIVE LiveHits(_, _, _)
LiveHits(hits, user_id, unhydrated) ==
    IF hits = << >> THEN << >>
    ELSE IF Head(hits).id \in ActiveIds(db, user_id) \ unhydrated
         THEN <<Head(hits).id>> \o LiveHits(Tail(hits), user_id, unhydrated)
         ELSE LiveHits(Tail(hits), user_id, unhydrated)

\* The result of a delete that retired exactly the record `top`
RetiredExactly(r, top, reason) ==
    /\ r.success
    /\ r.db[top].is_active = 0
    /\ LogRowsOf(r.log, top) = 1
    /\ r.log = log (+) SetToBag({x \in BagToSet(r.log) :
                                    x.memory_id = top /\ x.reason = reason})
    /\ top \notin DOMAIN r.index
    /\ DOMAIN r.db = DOMAIN db
    /\ \A i \in DOMAIN db \ {top} : r.db[i] = db[i]
    /\ DOMAIN r.index = DOMAIN index \ {top}
    /\ \A i \in DOMAIN index \ {top} : r.index[i] = index[i]
    /\ r.deleted_memory = <<db[top].content>>

IsProcessResult(r) ==
    /\ r.success \in BOOLEAN
    /\ r.memories_extracted \in {0, 1}
    /\ r.memories_extracted = Len(r.memories)
IsSearchResult(r) ==
    /\ r.success \in BOOLEAN
    /\ r.total_found = Len(r.memories)
    /\ ~r.success => r.memories = << >>
IsDeleteResult(r) ==
    /\ r.success \in BOOLEAN
    /\ r.message \in {"No matching memories found to delete",
                      "Memory deleted successfully",
                      "Failed to delete memory from one or both databases"}
    /\ r.success <=> r.deleted_memory # << >>
IsListResult(r) ==
    /\ r.success \in BOOLEAN
    /\ r.total_count = Len(r.memories)
IsStatsResult(r) ==
    /\ r.success \in BOOLEAN
    /\ r.vector_database_count \in Nat
    /\ r.databases_in_sync \in BOOLEAN

\* What fails in one call: one dependency call, or all of them
Failures(sites) == {{x} : x \in sites} \cup {sites}

C20_OneLogRowPerRetirement ==
    \A i \in DOMAIN db :
        LogRowsOf(log, i) = (IF db[i].is_active = 0 THEN 1 ELSE 0)

\* C21: records are never hard-deleted and the log is append-only: in every
\* step of the coordinator the ids of the record store only grow, the rows
\* of the log only grow, and a record that is inactive stays inactive.
C21_RecordsAndLogOnlyGrow ==
    [][ /\ DOMAIN db \subseteq DOMAIN db'
        /\ log \sqsubseteq log'
        /\ \A i \in DOMAIN db : db[i].is_active = 0 => db'[i].is_active = 0
      ]_vars

\* C21's case: two records were retired one after the other, each with its
\* log row, and both are still in the record store
C21_Witness ==
    /\ DOMAIN db = {1, 2}
    /\ db[1].is_active = 0
    /\ db[2].is_active = 0
    /\ LogRowsOf(log, 1) = 1
    /\ LogRowsOf(log, 2) = 1

\* The decisions about the content both users share
SharedDecisions == {x \in Decisions : x.new_memory.content = <<<<"a">>>>}

\* The record store and the log after a call are those of the same call
\* without the failure
SameStore(r, good) == r.db = good.db /\ r.log = good.log

\* C22 as stated: a failure of any index operation (add, query, delete)
\* leaves the record store and the log, for the same call, in the state of
\* the run where the index operation succeeded.
C22_IndexFailureLeavesStoreAsInGoodRun ==
    /\ \A user_id \in Users, conversation_id \in Conversations :
       \A decision \in SharedDecisions :
       \A good \in {process_message(db, log, index, user_id, decision,
                                    conversation_id, clock + 1, {})} :
       \A site \in {"vec_add", "vec_delete"} :
           SameStore(process_message(db, log, index, user_id, decision,
                                     conversation_id, clock + 1, {site}), good)
    /\ \A user_id \in Users, reason \in Reasons :
       \A ranking \in NearRankings(TRUE, index, user_id) :
       \A good \in {delete_memory_by_content(db, log, index, user_id, ranking,
                                            reason, {}, {})} :
          /\ SameStore(delete_memory_by_content(db, log, index, user_id, ranking,
                                                reason, {"vec_delete"}, {}), good)
          /\ SameStore(delete_memory_by_content(db, log, index, user_id, << >>,
                                                reason, {"vec_query"}, {}), good)

\* C22: a failure of an index operation never corrupts the record store.
\* When the add or the delete of the index fails, the record store and the
\* log end, for the same call, in the state of the run where it succeeded;
\* when the query of the index fails, the call (search_memories, or the
\* delete_memory_by_content that searches) leaves the record store and the
\* log as they were.
C22_IndexFailureNeverCorruptsStore ==
    /\ \A user_id \in Users, conversation_id \in Conversations :
       \A decision \in SharedDecisions :
       \A good \in {process_message(db, log, index, user_id, decision,
                                    conversation_id, clock + 1, {})} :
       \A site \in {"vec_add", "vec_delete"} :
           SameStore(process_message(db, log, index, user_id, decision,
                                     conversation_id, clock + 1, {site}), good)
    /\ \A user_id \in Users, reason \in Reasons :
          /\ \A ranking \in NearRankings(TRUE, index, user_id) :
                SameStore(delete_memory_by_content(db, log, index, user_id,
                              ranking, reason, {"vec_delete"}, {}),
                          delete_memory_by_content(db, log, index, user_id,
                              ranking, reason, {}, {}))
          /\ \A r \in {delete_memory_by_content(db, log, index, user_id, << >>,
                                               reason, {"vec_query"}, {})} :
                /\ r.db = db
                /\ r.log = log
                /\ ~r.success

\* C22's case: the index has failed twice and the record store holds what
\* the calls asked for -- a retired record whose index entry is still
\* there, and an active record that never reached the index
C22_Witness ==
    \E i \in DOMAIN db, j \in DOMAIN db :
        /\ db[i].is_active = 0
        /\ LogRowsOf(log, i) = 1
        /\ i \in DOMAIN index
        /\ db[j].is_active = 1
        /\ j \notin DOMAIN index

\* C23: content is never mutated in place.  In every step, the content
\* stored for an id in the record store, and the document stored for it in
\* the index, stay what they were; and a step in which an UPDATE supersedes
\* a record stores the replacement under an id that was not in use and
\* leaves the old record retired, its content untouched.
C23_ContentNeverMutatedInPlace ==
    [][ /\ \A i \in DOMAIN db :
              /\ i \in DOMAIN db'
              /\ db'[i].content = db[i].content
        /\ \A i \in DOMAIN index \cap DOMAIN index' :
              index'[i].document = index[i].document
        /\ \A i \in DOMAIN index' \cap DOMAIN db' :
              index'[i].document = db'[i].content
        /\ \A p \in superseded' \ superseded :
              /\ p[1] \in DOMAIN db
              /\ p[2] \notin DOMAIN db
              /\ p[2] \notin DOMAIN index
              /\ p[2] \in DOMAIN db'
              /\ db'[p[1]].is_active = 0
              /\ db'[p[1]].content = db[p[1]].content
              /\ db'[p[2]].is_active = 1
      ]_vars

\* C23's case: an UPDATE has superseded a record by one with another
\* content: the old record is retired and keeps its content, the new one is
\* stored under its own id in both stores
C23_Witness ==
    \E p \in superseded :
        /\ db[p[1]].content # db[p[2]].content
        /\ db[p[1]].is_active = 0
        /\ db[p[2]].is_active = 1
        /\ p[2] \in DOMAIN index
        /\ index[p[2]].document = db[p[2]].content

\* C24: every row the system writes to the log has a relationship_type
\* that is "retired" or "superseded".
C24_LogRowsAreRetiredOrSuperseded ==
    \A x \in BagToSet(log) : x.relationship_type \in {"retired", "superseded"}

UnresolvedUpdates(user_id) ==
    {x \in Decisions :
        /\ x.action = "UPDATE"
        /\ \/ x.memory_to_replace = << >>
           \/ ResolvedBy(user_id, x.memory_to_replace) = {}}

\* C26: an UPDATE decision whose hint matches no record does not block
\* ingestion: process_message (no dependency call failing) retires nothing,
\* appends no log row and leaves the stores exactly as the ADD of the same
\* candidate would -- for a valid candidate, one new active record in both
\* stores.
C26_UnresolvedUpdateInsertsAsAdd ==
    \A user_id \in Users, conversation_id \in Conversations :
    \A decision \in UnresolvedUpdates(user_id) :
    \A r \in {process_message(db, log, index, user_id, decision,
                             conversation_id, clock + 1, {})} :
    \A add \in {process_message(db, log, index, user_id,
                               [action |-> "ADD", memory_to_replace |-> << >>,
                                new_memory |-> decision.new_memory],
                               conversation_id, clock + 1, {})} :
        /\ r.log = log
        /\ \A i \in DOMAIN db : r.db[i] = db[i]
        /\ \A i \in DOMAIN index : i \in DOMAIN r.index /\ r.index[i] = index[i]
        /\ r.db = add.db
        /\ r.index = add.index
        /\ r.memories_extracted = add.memories_extracted
        /\ ValidCandidate(decision.new_memory) =>
              /\ DOMAIN r.db = DOMAIN db \cup {clock + 1}
              /\ DOMAIN r.index = DOMAIN index \cup {clock + 1}
              /\ r.db[clock + 1].is_active = 1
              /\ r.db[clock + 1].user_id = user_id
              /\ r.db[clock + 1].content = decision.new_memory.content[1]

\* C26's case: an owner has two active records in both stores, nothing was
\* ever retired, and an UPDATE naming a text that matches neither of them
\* can be decided
C26_Witness ==
    \E user_id \in Users :
        /\ Cardinality(ActiveIds(db, user_id)) = 2
        /\ ActiveIds(db, user_id) \subseteq DOMAIN index
        /\ log = EmptyBag
        /\ \E x \in UnresolvedUpdates(user_id) : x.memory_to_replace # << >>

\* The stores after n more messages of the owner, each decided as the ADD
\* of a record with content "a", the first at time now
RECURSIVE AfterAdds(_, _, _, _, _, _, _)
AfterAdds(d, lg, ix, user_id, conversation_id, n, now) ==
    IF n = 0 THEN [db |-> d, log |-> lg, index |-> ix]
    ELSE LET r == process_message(d, lg, ix, user_id,
                      [action |-> "ADD", memory_to_replace |-> << >>,
                       new_memory |-> [content |-> <<<<"a">>>>,
                                       category |-> <<"tools">>,
                                       confidence |-> <<9>>,
                                       tags |-> << >>]],
                      conversation_id, now, {})
         IN  AfterAdds(r.db, r.log, r.index, user_id, conversation_id,
                       n - 1, now + 1)

\* The ids of the records read as decision context
ContextIds(d, user_id) ==
    LET recent == get_recent_memories_for_context(d, user_id, ContextLimit, TRUE)
    IN  {recent[k].id : k \in DOMAIN recent}

\* C27: an UPDATE resolves its target within the window read as decision
\* context (the owner's 5 most recent active records): a record outside
\* that window stays active, even if its content contains or is contained
\* in the hint.  Stated for the stores that ContextLimit more ADDs of the
\* owner lead to from the current ones.
C27_UpdateRetiresOnlyWithinContextWindow ==
    \A user_id \in Users, conversation_id \in Conversations :
    \A s \in {AfterAdds(db, log, index, user_id, conversation_id,
                        ContextLimit, clock + 1)} :
    \A decision \in {x \in Decisions : /\ x.action = "UPDATE"
                                       /\ x.memory_to_replace # << >>} :
    \A r \in {process_message(s.db, s.log, s.index, user_id, decision,
                             conversation_id, clock + 1 + ContextLimit, {})} :
    \A i \in ActiveIds(s.db, user_id) \ ContextIds(s.db, user_id) :
        r.db[i].is_active = 1

\* The place of an id in the index's result
HitPlace(vector_results, id) ==
    CHOOSE k \in 1..Len(vector_results) : vector_results[k].id = id

\* C28: search_memories returns the hydrated hits as a subsequence of the
\* index's result, in the index's order: a hit whose read gives no record is
\* dropped and nothing else is, each returned record is the store's record
\* with the similarity of its own hit, and total_found is the number of
\* records returned.
C28_SearchKeepsIndexOrderAndOwnSimilarity ==
    \A user_id \in Users, limit \in SearchLimits :
    \A unhydrated \in {{}} \cup {{i} : i \in IndexIds(index, user_id)} :
    \A ranking \in RankingsNear(index, user_id) :
    \A r \in {search_memories(db, user_id, ranking, limit, {}, unhydrated)} :
        /\ r.success
        /\ r.total_found = Len(r.memories)
        /\ ResultIds(r.memories) =
              {id \in HitIds(r.vector_results) :
                  DatabaseManager_get_memory(db, id, user_id,
                                             id \notin unhydrated) # None}
        /\ \A k \in 1..Len(r.memories) :
              LET id == r.memories[k].memory.id
              IN  /\ r.memories[k].memory = memory_to_dict(from_dict(db[id]))
                  /\ r.memories[k].similarity =
                        r.vector_results[HitPlace(r.vector_results, id)].similarity
                  /\ \A j \in 1..(k - 1) :
                        HitPlace(r.vector_results, r.memories[j].memory.id)
                            < HitPlace(r.vector_results, id)

\* C28's case: the index answers with two hits of different similarity and
\* both come back in that order with their own scores, and when the read of
\* the first raises only the second comes back
C28_Witness ==
    \E user_id \in Users :
    \E ranking \in RankingsNear(index, user_id) :
        /\ Len(ranking) = 2
        /\ ranking[1].distance # ranking[2].distance
        /\ LET r == search_memories(db, user_id, ranking, DefaultSearchLimit,
                                    {}, {})
           IN  /\ r.total_found = 2
               /\ r.memories[1].memory.id = ranking[1].id
               /\ r.memories[1].similarity > r.memories[2].similarity
        /\ search_memories(db, user_id, ranking, DefaultSearchLimit, {},
                           {ranking[1].id}).total_found = 1

\* C29: delete_memory_by_content tolerates a failed index removal as the
\* UPDATE retire step does: when the record store retired the record and the
\* removal of its index entry failed, the call still reports success, with
\* the content of the deleted record.
C29_DeleteReportsSuccessWhenOnlyIndexRemovalFails ==
    \A user_id \in Users, reason \in Reasons :
    \A ranking \in NearRankings(TRUE, index, user_id) :
    \A r \in {delete_memory_by_content(db, log, index, user_id, ranking,
                                      reason, {"vec_delete"}, {})} :
        (/\ r.target \in DOMAIN db
         /\ db[r.target].is_active = 1
         /\ r.db[r.target].is_active = 0)
        => /\ r.success
           /\ r.deleted_memory = <<db[r.target].content>>

\* C30: nothing locks an owner's records between the calls of
\* process_message: a call at its resolution step picks the first matching
\* record of the store's window whatever the other call in flight has picked,
\* also when that call holds the same record, and a call that picked a record
\* inserts its replacement also when the record has been replaced already.
\* So a state with the old record retired and two active replacements is
\* reachable (C30_Witness).
C30_OverlappingUpdatesBothResolveAndInsert ==
    [][ \A p \in Callers :
            /\ (calls[p].pc = "get_user_memories" /\ calls'[p] # calls[p]) =>
                  \A m \in {FirstMatch(DatabaseManager_get_user_memories(
                                db, calls[p].user_id, None, <<ConflictWindow>>,
                                TRUE),
                              calls[p].memory_data_list[1]._memory_to_replace)} :
                      IF m # None
                      THEN /\ calls'[p].pc = "db_delete_memory"
                           /\ calls'[p].target = m[1].id
                      ELSE /\ calls'[p].pc = "save_memory"
                           /\ calls'[p].target = 0
            /\ (/\ calls[p].op = "process_message"
                /\ calls[p].pc = "save_memory"
                /\ calls[p].target # 0
                /\ calls'[p] # calls[p]) =>
                  /\ db'[clock + 1].is_active = 1
                  /\ db'[clock + 1].user_id = calls[p].user_id
                  /\ db'[calls[p].target].is_active = 0
                  /\ superseded' = superseded \cup {<<calls[p].target, clock + 1>>}
      ]_vars

\* C30's case: two calls of one owner resolved to the same record and both
\* went through: the old record is retired and two active records of the
\* owner replace it
C30_Witness ==
    \E x \in DOMAIN db :
    \E y, z \in DOMAIN db :
        /\ y # z
        /\ <<x, y>> \in superseded
        /\ <<x, z>> \in superseded
        /\ db[x].is_active = 0
        /\ db[y].is_active = 1
        /\ db[z].is_active = 1
        /\ db[y].user_id = db[x].user_id
        /\ db[z].user_id = db[x].user_id
        /\ \A p \in Callers : calls[p] = Idle

\* C31: response synthesis never affects the records search_memories
\* returns: whether the completion answers, raises (the response is then
\* the templated join of the contents) or is not asked for because nothing
\* was found, the records, their order, their scores and total_found are
\* the same, and the search succeeds.
C31_SynthesisNeverChangesTheRecords ==
    \A user_id \in Users, limit \in SearchLimits :
    \A ranking \in NearRankings(TRUE, index, user_id) :
    \A r \in {search_memories(db, user_id, ranking, limit, {}, {})} :
    \A f \in {search_memories(db, user_id, ranking, limit, {"enhance"}, {})} :
        /\ f.success = r.success
        /\ f.memories = r.memories
        /\ f.vector_results = r.vector_results
        /\ f.total_found = r.total_found
        /\ f.memories = Hydrate(db, user_id, f.vector_results, {})
        /\ IF f.memories = << >>
           THEN f.enhanced_response = r.enhanced_response
           ELSE f.enhanced_response[1][1] = "Based on what I remember: "

\* C31's case: one owner's search finds two records, and the response is the
\* completion in one run and the templated join in the other; the other
\* owner's search finds nothing and no completion is asked for
C31_Witness ==
    \E user_id \in Users, other \in Users :
    \E ranking \in NearRankings(TRUE, index, user_id) :
        LET r == search_memories(db, user_id, ranking, DefaultSearchLimit, {}, {})
            f == search_memories(db, user_id, ranking, DefaultSearchLimit,
                                 {"enhance"}, {})
            o == search_memories(db, other, << >>, DefaultSearchLimit,
                                 {"enhance"}, {})
        IN  /\ r.total_found = 2
            /\ f.total_found = 2
            /\ r.enhanced_response = <<<<"completion">>>>
            /\ f.enhanced_response # r.enhanced_response
            /\ IndexIds(index, other) = {}
            /\ o.success
            /\ o.enhanced_response =
                  <<<<"I don't have any memories related to that query.">>>>

\* The decisions C32 is checked for: ADD of a candidate with and without
\* content, and UPDATE of the candidate with content
CountedDecisions ==
    {x \in Decisions :
        /\ x.new_memory.content # <<<<"b">>>>
        /\ \/ x.action = "ADD"
           \/ /\ x.action = "UPDATE"
              /\ x.memory_to_replace = <<"b">>
              /\ x.new_memory.content = <<<<"a">>>>}

\* C32: process_message returns an extracted count of 0 or 1, with as many
\* records in its answer, and the count is 1 exactly when the write of the
\* new record to the record store and its write to the index both succeeded:
\* the record is then in both stores.
C32_CountIsOneExactlyWhenBothWritesSucceed ==
    \A user_id \in Users, conversation_id \in Conversations :
    \A decision \in CountedDecisions :
    \A faults \in FaultSets(InsertSites) :
    \A r \in {process_message(db, log, index, user_id, decision,
                             conversation_id, clock + 1, faults)} :
        /\ r.success
        /\ r.memories_extracted \in {0, 1}
        /\ Len(r.memories) = r.memories_extracted
        /\ r.memories_extracted = 1 <=>
              /\ r.created # None
              /\ "embed" \notin faults
              /\ clock + 1 \in DOMAIN r.db
              /\ clock + 1 \in DOMAIN r.index
        /\ r.memories_extracted = 1 => r.memories[1].id = clock + 1

\* C32's case: one call stored its record in both stores and counted 1,
\* another stored its record in the record store only, the index write
\* having failed, and counted 0
C32_Witness ==
    /\ DOMAIN db = {1, 2}
    /\ DOMAIN index = {1}
    /\ db[1].is_active = 1
    /\ db[2].is_active = 1
    /\ log = EmptyBag

\* What a call made for an owner leaves alone: the rows, the log rows and
\* the index entries of every other owner
OthersUntouched(r, user_id) ==
    /\ \A i \in DOMAIN db :
          db[i].user_id # user_id =>
              /\ i \in DOMAIN r.db
              /\ r.db[i] = db[i]
              /\ LogRowsOf(r.log, i) = LogRowsOf(log, i)
    /\ \A i \in DOMAIN index :
          index[i].user_id # user_id =>
              /\ i \in DOMAIN r.index
              /\ r.index[i] = index[i]

\* C33: write isolation between owners: no process_message and no
\* delete_memory_by_content call made for an owner changes the row (its
\* active flag included) of a record of another owner, adds a log row that
\* names it, or removes or changes its index entry, whatever the decision,
\* the hint and the answer of the index.
C33_CallsLeaveOtherOwnersRecordsAlone ==
    \A user_id \in Users :
        /\ \A conversation_id \in Conversations :
           \A decision \in SharedDecisions :
           \A r \in {process_message(db, log, index, user_id, decision,
                                    conversation_id, clock + 1, {})} :
               OthersUntouched(r, user_id)
        /\ \A reason \in Reasons :
           \A ranking \in NearRankings(TRUE, index, user_id) :
           \A r \in {delete_memory_by_content(db, log, index, user_id, ranking,
                                             reason, {}, {})} :
               OthersUntouched(r, user_id)

\* C33's case: two owners hold a record with the same content; the record of
\* one of them was retired and removed from the index, the other's is active
\* and indexed and no log row names it
C33_Witness ==
    \E i, j \in DOMAIN db :
        /\ db[i].user_id # db[j].user_id
        /\ db[i].content = db[j].content
        /\ db[i].is_active = 0
        /\ i \notin DOMAIN index
        /\ LogRowsOf(log, i) = 1
        /\ db[j].is_active = 1
        /\ j \in DOMAIN index
        /\ LogRowsOf(log, j) = 0

\* C34: when calls run one at a time and no store call, embedding or chat
\* completion fails, after each operation the ids of an owner's active
\* records are the ids the index holds for the owner, and get_memory_stats
\* reports databases_in_sync.
C34_StoresInSyncWithoutFailure ==
    \A user_id \in Users :
        /\ ActiveIds(db, user_id) = IndexIds(index, user_id)
        /\ get_memory_stats(db, index, user_id, {}).databases_in_sync

\* C34's case: an UPDATE replaced a record and a delete_memory_by_content
\* then retired the replacement: both records are retired, each with its
\* log row, and the index holds neither
C34_Witness ==
    \E x \in superseded :
        /\ db[x[1]].is_active = 0
        /\ db[x[2]].is_active = 0
        /\ LogRowsOf(log, x[1]) = 1
        /\ LogRowsOf(log, x[2]) = 1
        /\ x[1] \notin DOMAIN index
        /\ x[2] \notin DOMAIN index

\* The records that are retired in the record store and still in the index
Drifted == {i \in DOMAIN db \cap DOMAIN index : db[i].is_active = 0}

\* C35: drift from a failed index removal is permanent: once a record is
\* inactive in the record store while its id is in the index, no later call
\* removes or changes that index entry, and the record stays inactive
\* (search_memories and get_memory_stats write nothing; an UPDATE and a
\* delete_memory_by_content pick their record among the active ones).
C35_DriftedIndexEntryStays ==
    [][ \A i \in Drifted :
            /\ i \in DOMAIN index'
            /\ index'[i] = index[i]
            /\ i \in DOMAIN db'
            /\ db'[i].is_active = 0
      ]_vars

\* C35's case: a delete_memory_by_content retired the first record and
\* failed to remove its index entry; a record was stored after it and the
\* entry is still there
C35_Witness ==
    /\ 1 \in Drifted
    /\ [memory_id |-> 1, relationship_type |-> "deleted",
        reason |-> "user asked"] \in BagToSet(log)
    /\ 2 \in DOMAIN db
    /\ 2 \in DOMAIN index
    /\ db[2].user_id = db[1].user_id
    /\ db[2].is_active = 1

\* The owner's records that are active and in the index
Findable(user_id) == ActiveIds(db, user_id) \cap IndexIds(index, user_id)

\* C36: search_memories returns at most `limit` records, all of them among
\* the owner's active indexed records.  It can return fewer than
\* min(limit, number of those records): the index cuts its answer to `limit`
\* entries before the stale ones are dropped (C36_Witness).
C36_SearchReturnsAtMostLimit ==
    \A user_id \in Users, limit \in SearchLimits :
    \A ranking \in NearRankings(TRUE, index, user_id) :
    \A r \in {search_memories(db, user_id, ranking, limit, {}, {})} :
        /\ Len(r.vector_results) <= limit
        /\ Len(r.memories) <= limit
        /\ r.total_found <= limit
        /\ ResultIds(r.memories) \subseteq Findable(user_id)
        /\ Len(r.memories) = Cardinality(ResultIds(r.memories))

\* C36's case: the owner has an active indexed record and a stale index
\* entry that the index ranks first: a search with limit 1 returns nothing
\* although one record could be found
C36_Witness ==
    \E user_id \in Users :
    \E ranking \in NearRankings(TRUE, index, user_id) :
        /\ Cardinality(Findable(user_id)) = 1
        /\ Len(ranking) = 2
        /\ ranking[1].id \in Drifted
        /\ search_memories(db, user_id, ranking, 1, {}, {}).total_found = 0
        /\ search_memories(db, user_id, ranking, DefaultSearchLimit,
                           {}, {}).total_found = 1

\* C37: state is unchanged on a failed deletion: whenever
\* delete_memory_by_content returns success = false, the call has modified
\* neither the record store, nor the log, nor the index.
C37_FailedDeleteChangesNothing ==
    \A user_id \in Users, reason \in Reasons :
    \A faults \in FaultSets(DeleteSites) :
    \A ranking \in NearRankings(faults \cap QuerySites = {}, index, user_id) :
    \A r \in {delete_memory_by_content(db, log, index, user_id, ranking,
                                      reason, faults, {})} :
        ~r.success => /\ r.db = db
                      /\ r.log = log
                      /\ r.index = index

RetiredBy(r) == {i \in DOMAIN db : db[i].is_active = 1 /\ r.db[i].is_active = 0}

\* C39: an UPDATE retires at most one record per process_message call: when
\* several active records of the owner match the hint (containment in either
\* direction, ignoring case), only the newest of them is retired, with one
\* log row, and the others stay active and indexed -- also when the removal
\* from the index fails.
C39_UpdateRetiresOnlyTheNewestMatch ==
    \A user_id \in Users, conversation_id \in Conversations :
    \A decision \in {x \in SharedDecisions : /\ x.action = "UPDATE"
                                             /\ x.memory_to_replace # << >>} :
    \A faults \in {{}, {"vec_delete"}} :
    \A r \in {process_message(db, log, index, user_id, decision,
                             conversation_id, clock + 1, faults)} :
        LET matches == ResolvedBy(user_id, decision.memory_to_replace)
        IN  /\ Cardinality(RetiredBy(r)) <= 1
            /\ RetiredBy(r) \subseteq matches
            /\ matches # {} => Cardinality(RetiredBy(r)) = 1
            /\ \A x \in RetiredBy(r) :
                  /\ r.target = x
                  /\ \A j \in matches :
                        fromisoformat(db[j].timestamp)
                            <= fromisoformat(db[x].timestamp)
                  /\ LogRowsOf(r.log, x) = LogRowsOf(log, x) + 1
            /\ BagCardinality(r.log) = BagCardinality(log) + Cardinality(RetiredBy(r))
            /\ \A j \in DOMAIN index \ RetiredBy(r) : j \in DOMAIN r.index

\* C39's case: two records of an owner had the same content and an UPDATE
\* naming it retired the newer one only: the older one is still active and
\* indexed and no log row names it
C39_Witness ==
    /\ DOMAIN db = {1, 2}
    /\ db[1].user_id = db[2].user_id
    /\ db[1].content = db[2].content
    /\ db[1].is_active = 1
    /\ 1 \in DOMAIN index
    /\ LogRowsOf(log, 1) = 0
    /\ db[2].is_active = 0
    /\ [memory_id |-> 2, relationship_type |-> "deleted",
        reason |-> "Replaced by new information"] \in BagToSet(log)
    /\ BagCardinality(log) = 1

============================================================================
